---- MODULE Spec2Model ----
(***************************************************************************)
(* Token ledger of the DJEI backend (src/src/routes/payments/tokens.ts).   *)
(*                                                                         *)
(* Every route handler is an async function: each `await supabase...` is   *)
(* one atomic call to the store, and other requests may run between two    *)
(* awaits of the same handler.  A request occupies a slot; its position    *)
(* (pc) and its locals (currentBalance, newBalance) live in the slot.      *)
(*                                                                         *)
(* The store is PostgREST behind supabase-js:                              *)
(*   - select(..).single() answers error PGRST116 and data null when no    *)
(*     row matches;                                                        *)
(*   - upsert(row) without onConflict resolves conflicts on the primary    *)
(*     key only.  user_tokens has PRIMARY KEY id (generated) and           *)
(*     UNIQUE(profile_id); the routes never send id, so the upsert is an   *)
(*     INSERT that fails with 23505 when the profile already has a row;    *)
(*   - update(..).eq(..) changes the matching rows and is no error when    *)
(*     none matches.                                                       *)
(* A handler's steps that touch no shared row (authentication, schema      *)
(* parsing) are folded into its first store call.  Each insert that        *)
(* follows the balance write (transaction log, bid record, audit entry)    *)
(* is a step of its own, so other requests run between them.  The          *)
(* created_at of a transaction is the handler's wall clock in the turn     *)
(* that sends the insert: a step of its own, after the store has applied   *)
(* the balance write and before the row reaches the store.                 *)
(* Any store call may fail.  `last` holds the response of the step just    *)
(* taken and is Idle after a step that answers nothing.                    *)
(* PUT /admin/change-role of src/src/routes/auth/profile.ts writes the     *)
(* same table admin_actions and is part of the ledger's specification.     *)
(* CHECK (balance >= 0) of user_tokens is not modelled as a separate       *)
(* guard: no handler ever sends a negative balance, so it never fires.     *)
(*                                                                         *)
(* song_bids has no schema in the repository, and the upsert of POST /bid   *)
(* names no conflict target: what a second bid of an account on a song     *)
(* does to the table depends on the table's keys.  songBidsKey ranges over *)
(* the three definitions the upsert can meet and is fixed by the first     *)
(* upsert that meets a row of its account and song.                        *)
(*                                                                         *)
(* The second part models src/src/server.ts, the application the server    *)
(* listens with: which layer takes a request of a given method and path.   *)
(* A request for a route of the catalog router goes on in its handler,     *)
(* which calls getSpotifyToken and then asks the catalog; a request for    *)
(* POST /api/payments/create-intent is answered by its handler.            *)
(*                                                                         *)
(* Two further parts, each with a specification of its own: POST /, PUT /  *)
(* and DELETE / of src/src/routes/auth/role.ts over the role tables        *)
(* attendee, dj and venue (RoleSpec), and getSpotifyToken of               *)
(* src/src/routes/music/spotify.ts with its module-level cache and a       *)
(* clock (SpotifySpec).                                                    *)
(***************************************************************************)
EXTENDS Integers, Sequences, FiniteSets, TLC

\* ---------------------------------------------------------------- bounds
MaxRequests == 2

\* The clock of the catalog credential stops after MaxClock ticks.
MaxClock == 5

\* ------------------------------------------------------ program constants
MinPurchase == 1
MaxPurchase == 10000
MinBid == 1
MaxBid == 1000

PackageTypes == {"50", "100", "250", "500"}

\* ---------------------------------------------------------- input domains
Accounts == {"u1", "u2"}
Admins == {"u2"}
NoToken == ""
BadToken == "invalid_token_123"
Missing == "undefined"
Songs == {"song_1"}
PurchaseAmounts == {0, 2, 10001}
BidAmounts == {0, 1, 2, 3, 1001}
Adjustments == {-1, 2}
Pages == {1, 2}
Limits == {1, 2}
Slots == {1, 2}

VARIABLES user_tokens, token_transactions, song_bids, songBidsKey, admin_actions,
          profile_role, slot, last, started, logFailed,
          profiles, roleSlot,
          spotifyToken, now, caller, refreshes

vars == <<user_tokens, token_transactions, song_bids, songBidsKey, admin_actions,
          profile_role, slot, last, started, logFailed,
          profiles, roleSlot, spotifyToken, now, caller, refreshes>>

\* profile_role is the column role of the table profiles; songBidsKey is
\* the conflict target of the table song_bids.
tables == <<user_tokens, token_transactions, song_bids, songBidsKey, admin_actions,
            profile_role>>

\* The state of the role router (role.ts) and of the catalog router
\* (spotify.ts); no handler of tokens.ts touches it.
roleVars == <<profiles, roleSlot>>

spotifyVars == <<spotifyToken, now, caller, refreshes>>

\* The module state of spotify.ts; `now`, the wall clock, is also read by the
\* handlers of tokens.ts when they stamp a row.
catalogVars == <<spotifyToken, caller, refreshes>>

\* ------------------------------------------------------------ pure helpers
Max(a, b) == IF a >= b THEN a ELSE b

RECURSIVE SumAmounts(_)
SumAmounts(s) == IF s = <<>> THEN 0 ELSE Head(s).amount + SumAmounts(Tail(s))

TransactionsOf(log, p) == SelectSeq(log, LAMBDA t : t.profile_id = p)

\* Sum of the amounts of the transactions recorded for account p.
LedgerSum(log, p) == SumAmounts(TransactionsOf(log, p))

\* --------------------------------------------------------------- the store
NoRow == [exists |-> FALSE, balance |-> 0]

\* The rows of song_bids of account p for the song.
BidRowsOf(bids, p, song) ==
    {i \in 1..Len(bids) : bids[i].user_id = p /\ bids[i].song_id = song}

\* .from('user_tokens').select('balance').eq('profile_id', p).single()
SelectBalance(tokens, p, fault) ==
    IF fault THEN [found |-> FALSE, balance |-> 0, error |-> "08006"]
    ELSE IF ~tokens[p].exists THEN [found |-> FALSE, balance |-> 0, error |-> "PGRST116"]
    ELSE [found |-> TRUE, balance |-> tokens[p].balance, error |-> ""]

\* userTokens?.balance || 0
BalanceOrZero(res) == IF res.found THEN res.balance ELSE 0

\* Mutant: the upsert merges into the row of the account.
UpsertBalance_Merge(tokens, p, b, fault) ==
    IF fault THEN [error |-> "08006", table |-> tokens]
    ELSE [error |-> "", table |-> [tokens EXCEPT ![p] = [exists |-> TRUE, balance |-> b]]]

\* .from('user_tokens').upsert({ profile_id, balance, updated_at })
UpsertBalance(tokens, p, b, fault) ==
    IF fault THEN [error |-> "08006", table |-> tokens]
    ELSE IF tokens[p].exists THEN [error |-> "23505", table |-> tokens]
    ELSE [error |-> "", table |-> [tokens EXCEPT ![p] = [exists |-> TRUE, balance |-> b]]]

\* Mutant: the update is not restricted to the row of the account.
UpdateBalance_AllRows(tokens, p, b, fault) ==
    IF fault THEN [error |-> "08006", table |-> tokens]
    ELSE [error |-> "",
          table |-> [q \in DOMAIN tokens |->
                        IF tokens[q].exists THEN [tokens[q] EXCEPT !.balance = b]
                        ELSE tokens[q]]]

\* .from('user_tokens').update({ balance, updated_at }).eq('profile_id', p)
UpdateBalance(tokens, p, b, fault) ==
    IF fault THEN [error |-> "08006", table |-> tokens]
    ELSE IF tokens[p].exists
         THEN [error |-> "", table |-> [tokens EXCEPT ![p].balance = b]]
         ELSE [error |-> "", table |-> tokens]

\* Mutant: the new row takes the place of the newest recorded one.
InsertTransaction_Overwrite(log, row, fault) ==
    IF fault THEN [error |-> "08006", table |-> log]
    ELSE IF log = <<>> THEN [error |-> "", table |-> <<row>>]
    ELSE [error |-> "", table |-> [log EXCEPT ![Len(log)] = row]]

\* .from('token_transactions').insert(row)
InsertTransaction(log, row, fault) ==
    IF fault THEN [error |-> "08006", table |-> log]
    ELSE [error |-> "", table |-> Append(log, row)]

\* created_at: new Date().toISOString(), read when the handler builds the
\* row, in the turn that sends the insert: the wall clock shows the instant
\* of its latest reading or a later one.  That turn runs after the store has
\* applied the balance write and before the insert reaches the store, with
\* turns of other requests in between, so rows of one instant, rows of
\* different instants, a log whose created_at goes down and a write that is
\* stamped later than a write applied after it all occur.
Instants == {t \in {now, now + 1} : t <= MaxClock}

\* The row as inserted, with its created_at.
Stamped(row, at) ==
    [profile_id |-> row.profile_id, amount |-> row.amount,
     transaction_type |-> row.transaction_type, ref |-> row.ref,
     created_at |-> at]

\* .order('created_at', { ascending: false }): the answers the store can
\* give, every arrangement of the rows in which created_at never increases.
\* Rows of one created_at come in an order the statement does not fix.
Orderings(rows) ==
    {[i \in 1..Len(rows) |-> rows[f[i]]] :
        f \in {g \in Permutations(1..Len(rows)) :
                  \A a, b \in 1..Len(rows) :
                      a < b => rows[g[a]].created_at >= rows[g[b]].created_at}}

\* .from('token_transactions').select('*').eq('profile_id', p)
\*   .order('created_at', { ascending: false }).range(from, to)
\* newestFirst is the order the store gave to the rows of p.
SelectTransactions(newestFirst, from, to, fault) ==
    IF fault THEN [error |-> "08006", data |-> <<>>]
    ELSE LET upto == IF to + 1 < Len(newestFirst) THEN to + 1 ELSE Len(newestFirst)
         IN  [error |-> "", data |-> SubSeq(newestFirst, from + 1, upto)]

\* .from('song_bids').upsert({ user_id, song_id, bid_amount, status: 'active' })
SongBidRow(p, song, amount) ==
    [user_id |-> p, song_id |-> song, bid_amount |-> amount, status |-> "active"]

\* The upsert names no onConflict (lines 207-216), so it resolves conflicts
\* on the primary key of song_bids, and the row it sends carries no id.  No
\* file of the repository defines the table; the definitions the call can
\* meet are
\*   "pair"       PRIMARY KEY (user_id, song_id)
\*   "id"         a generated primary key and no other key
\*   "id_unique"  a generated primary key and UNIQUE (user_id, song_id), as
\*                user_tokens has it for profile_id
SongBidsKeys == {"pair", "id", "id_unique"}

\* No upsert has yet met a row of its account and song.
KeyNotShown == "not shown"

\* .upsert(row) on a table with the keys `key`: under "pair" the row
\* replaces the row of its account and song, under "id" it is inserted
\* beside it, under "id_unique" the insert is refused with 23505.  When the
\* pair has no row the row is inserted under every definition.
UpsertSongBid(bids, key, p, song, amount, fault) ==
    IF fault THEN [error |-> "08006", table |-> bids]
    ELSE IF BidRowsOf(bids, p, song) = {} \/ key = "id"
    THEN [error |-> "", table |-> Append(bids, SongBidRow(p, song, amount))]
    ELSE IF key = "id_unique"
    THEN [error |-> "23505", table |-> bids]
    ELSE [error |-> "",
          table |-> [i \in 1..Len(bids) |->
                        IF i \in BidRowsOf(bids, p, song)
                        THEN SongBidRow(p, song, amount) ELSE bids[i]]]

\* .from('admin_actions').insert(row)
InsertAdminAction(actions, row, fault) ==
    IF fault THEN actions ELSE Append(actions, row)

\* ------------------------------------------------------- request handling
\* authenticateUser: the bearer token of a known account authenticates it.
authenticateUser(token) ==
    IF token = NoToken THEN [ok |-> FALSE, error |-> "No authorization token"]
    ELSE IF token \notin Accounts THEN [ok |-> FALSE, error |-> "Invalid token"]
    ELSE [ok |-> TRUE, error |-> ""]

\* Mutant: the upper bound of the amount is not checked.
tokenPurchaseSchema_NoMax(body) ==
    /\ body.amount >= MinPurchase
    /\ body.paymentIntentId # Missing
    /\ body.packageType \in PackageTypes

tokenPurchaseSchema(body) ==
    /\ body.amount >= MinPurchase
    /\ body.amount <= MaxPurchase
    /\ body.paymentIntentId # Missing
    /\ body.packageType \in PackageTypes

bidTokenSchema(body) ==
    /\ body.songId # Missing
    /\ body.bidAmount >= MinBid
    /\ body.bidAmount <= MaxBid

\* A request: its bearer token and its body.  The accounts in `full` send
\* every body; the other account sends the sample, and so do the requests
\* that fail authentication, the handler never looks at their body.
Requests(bodies, sample, full) ==
    [token : full, body : bodies]
    \cup [token : (Accounts \ full) \cup {NoToken, BadToken}, body : {sample}]

NoResp == [status |-> 0, error |-> ""]
ErrorResp(code, msg) == [status |-> code, error |-> msg]

Idle == [op |-> "idle", pc |-> "idle", token |-> NoToken, user |-> "",
         body |-> [none |-> TRUE], currentBalance |-> 0, newBalance |-> 0,
         found |-> FALSE, faulted |-> FALSE, dropped |-> FALSE, created_at |-> 0,
         resp |-> NoResp]

\* A new request takes the first idle slot.
Free(s) == slot[s].pc = "idle" /\ \A t \in Slots : t < s => slot[t].pc # "idle"

Begin(op, req) ==
    [Idle EXCEPT !.op = op, !.token = req.token, !.body = req.body,
                 !.user = IF authenticateUser(req.token).ok THEN req.token ELSE ""]

\* The handler goes on: its slot keeps its position and locals.  The step
\* answers no request, which last = Idle says.
Set(s, r) ==
    /\ slot' = [slot EXCEPT ![s] = r]
    /\ last' = Idle
    /\ UNCHANGED <<roleVars, catalogVars>>

\* The handler responds: its slot is released and the finished request, with
\* its locals and its response, is kept in last.
Finish(s, r, resp) ==
    /\ slot' = [slot EXCEPT ![s] = Idle]
    /\ last' = [r EXCEPT !.pc = "done", !.resp = resp]
    /\ UNCHANGED <<roleVars, catalogVars>>

\* Mutant: the result of the balance write is not looked at.
WriteFailed_Ignored(error) == FALSE

\* if (updateError): the balance write of a purchase, a bid or an adjustment
\* was rejected by the store.
WriteFailed(error) == error # ""

\* ------------------------------------------- GET /balance (lines 56-77)
\* Mutant: the missing-row answer of single() is taken for a failure.
FetchFailed_AnyError(error) == error # ""

\* error && error.code !== 'PGRST116'
FetchFailed(error) == error # "" /\ error # "PGRST116"

GetBalance(s) ==
    /\ Free(s)
    /\ started < MaxRequests
    /\ \E req \in Requests({[none |-> TRUE]}, [none |-> TRUE], Accounts), fault \in BOOLEAN :
         LET auth == authenticateUser(req.token)
             r == Begin("balance", req)
             res == SelectBalance(user_tokens, r.user, fault)
             balance == BalanceOrZero(res)
         IN  IF ~auth.ok THEN ~fault /\ Finish(s, r, ErrorResp(401, auth.error))
             ELSE IF FetchFailed(res.error)
             THEN Finish(s, [r EXCEPT !.faulted = fault],
                         ErrorResp(500, "Failed to fetch balance"))
             ELSE Finish(s, [r EXCEPT !.currentBalance = balance, !.found = res.found,
                                      !.faulted = fault],
                         [status |-> 200, error |-> "", balance |-> balance])
    /\ started' = started + 1
    /\ UNCHANGED <<tables, logFailed, now>>

\* ---------------------------------------- POST /purchase (lines 80-147)
ValidPurchase == [amount |-> 2, paymentIntentId |-> "pi_1", packageType |-> "100"]

PurchaseBodies ==
    [amount : PurchaseAmounts, paymentIntentId : {"pi_1"}, packageType : {"100"}]
    \cup {[ValidPurchase EXCEPT !.paymentIntentId = Missing],
          [ValidPurchase EXCEPT !.packageType = "invalid_package"]}

\* currentBalance + amount
CreditedBalance(currentBalance, amount) == currentBalance + amount

\* lines 82-98: parse the body, read the balance, compute the new one
PurchaseRead(s) ==
    /\ Free(s)
    /\ started < MaxRequests
    /\ \E req \in Requests(PurchaseBodies, ValidPurchase, {"u1"}), fault \in BOOLEAN :
         LET auth == authenticateUser(req.token)
             r == Begin("purchase", req)
             res == SelectBalance(user_tokens, r.user, fault)
             currentBalance == BalanceOrZero(res)
         IN  IF ~auth.ok THEN ~fault /\ Finish(s, r, ErrorResp(401, auth.error))
             ELSE IF ~tokenPurchaseSchema(req.body)
             THEN ~fault /\ Finish(s, r, ErrorResp(400, "Validation failed"))
             ELSE Set(s, [r EXCEPT !.pc = "pur_upsert",
                                   !.currentBalance = currentBalance,
                                   !.newBalance = CreditedBalance(currentBalance,
                                                                  req.body.amount),
                                   !.found = res.found,
                                   !.faulted = fault])
    /\ started' = started + 1
    /\ UNCHANGED <<tables, logFailed, now>>

\* lines 100-112: the upsert of the new balance reaches the store while the
\* handler waits.  A rejected upsert changes nothing and its answer, the 500
\* of lines 109-112, reads nothing, so it is given with this step.
PurchaseUpsert(s) ==
    /\ slot[s].pc = "pur_upsert"
    /\ \E fault \in BOOLEAN :
         LET r == slot[s]
             res == UpsertBalance(user_tokens, r.user, r.newBalance, fault)
         IN  /\ user_tokens' = res.table
             /\ IF WriteFailed(res.error)
                THEN Finish(s, [r EXCEPT !.faulted = r.faulted \/ fault],
                            ErrorResp(500, "Failed to update balance"))
                ELSE Set(s, [r EXCEPT !.pc = "pur_written"])
    /\ UNCHANGED <<token_transactions, song_bids, songBidsKey, admin_actions, profile_role,
                   started, logFailed, now>>

\* lines 114-124: the answer of the upsert reaches the handler, in a turn
\* of its own after the write; the handler builds the transaction row, reads
\* the clock for created_at and sends the insert
PurchaseStamp(s) ==
    /\ slot[s].pc = "pur_written"
    /\ \E at \in Instants :
         /\ now' = at
         /\ Set(s, [slot[s] EXCEPT !.pc = "pur_log", !.created_at = at])
    /\ UNCHANGED <<tables, started, logFailed>>

\* if (transactionError) console.error(..); res.json({ success, newBalance,
\* amountAdded })
PurchaseResponse(r, transactionError) ==
    [status |-> 200, error |-> "", success |-> TRUE,
     newBalance |-> r.newBalance, amountAdded |-> r.body.amount]

\* lines 114-135: the insert reaches the store, the handler responds
PurchaseLog(s) ==
    /\ slot[s].pc = "pur_log"
    /\ \E fault \in BOOLEAN :
         LET r == slot[s]
             row == [profile_id |-> r.user, amount |-> r.body.amount,
                     transaction_type |-> "purchase", ref |-> r.body.paymentIntentId]
             res == InsertTransaction(token_transactions, Stamped(row, r.created_at),
                                      fault)
         IN  /\ token_transactions' = res.table
             /\ logFailed' = (logFailed \/ res.error # "")
             /\ Finish(s, [r EXCEPT !.dropped = fault], PurchaseResponse(r, res.error))
    /\ UNCHANGED <<user_tokens, song_bids, songBidsKey, admin_actions, profile_role, started, now>>

\* --------------------------------------------- POST /bid (lines 150-240)
ValidBid == [songId |-> "song_1", bidAmount |-> 1]

BidBodies ==
    [songId : Songs, bidAmount : BidAmounts]
    \cup {[ValidBid EXCEPT !.songId = Missing]}

\* Mutant of the sufficiency check: the comparison turned round.
InsufficientTokens_Inverted(currentBalance, bidAmount) == currentBalance > bidAmount

\* currentBalance < bidAmount
InsufficientTokens(currentBalance, bidAmount) == currentBalance < bidAmount

\* Mutant: the bid is added to the balance.
DeductedBalance_Added(currentBalance, bidAmount) == currentBalance + bidAmount

\* currentBalance - bidAmount
DeductedBalance(currentBalance, bidAmount) == currentBalance - bidAmount

\* lines 152-176: parse the body, read the balance, check it
BidRead(s) ==
    /\ Free(s)
    /\ started < MaxRequests
    /\ \E req \in Requests(BidBodies, ValidBid, {"u2"}), fault \in BOOLEAN :
         LET auth == authenticateUser(req.token)
             r == Begin("bid", req)
             res == SelectBalance(user_tokens, r.user, fault)
             currentBalance == BalanceOrZero(res)
         IN  IF ~auth.ok THEN ~fault /\ Finish(s, r, ErrorResp(401, auth.error))
             ELSE IF ~bidTokenSchema(req.body)
             THEN ~fault /\ Finish(s, r, ErrorResp(400, "Validation failed"))
             ELSE IF res.error # ""
             THEN /\ fault => req.body = ValidBid
                  /\ Finish(s, [r EXCEPT !.faulted = fault],
                            ErrorResp(500, "Failed to check balance"))
             ELSE IF InsufficientTokens(currentBalance, req.body.bidAmount)
             THEN Finish(s, [r EXCEPT !.currentBalance = currentBalance,
                                      !.found = res.found],
                         [status |-> 400, error |-> "Insufficient tokens",
                          currentBalance |-> currentBalance,
                          required |-> req.body.bidAmount])
             ELSE Set(s, [r EXCEPT !.pc = "bid_update",
                                   !.currentBalance = currentBalance,
                                   !.found = res.found,
                                   !.newBalance = DeductedBalance(currentBalance,
                                                                  req.body.bidAmount)])
    /\ started' = started + 1
    /\ UNCHANGED <<tables, logFailed, now>>

\* lines 177-188: the update of the balance reaches the store while the
\* handler waits.  A rejected update changes nothing and its answer, the 500
\* of lines 185-188, reads nothing, so it is given with this step.
BidUpdate(s) ==
    /\ slot[s].pc = "bid_update"
    /\ \E fault \in BOOLEAN :
         LET r == slot[s]
             res == UpdateBalance(user_tokens, r.user, r.newBalance, fault)
         IN  /\ user_tokens' = res.table
             /\ IF WriteFailed(res.error)
                THEN Finish(s, [r EXCEPT !.faulted = TRUE],
                            ErrorResp(500, "Failed to process bid"))
                ELSE Set(s, [r EXCEPT !.pc = "bid_written"])
    /\ UNCHANGED <<token_transactions, song_bids, songBidsKey, admin_actions, profile_role,
                   started, logFailed, now>>

\* lines 190-200: the answer of the update reaches the handler, in a turn
\* of its own after the write; the handler builds the transaction row, reads
\* the clock for created_at and sends the insert
BidStamp(s) ==
    /\ slot[s].pc = "bid_written"
    /\ \E at \in Instants :
         /\ now' = at
         /\ Set(s, [slot[s] EXCEPT !.pc = "bid_log", !.created_at = at])
    /\ UNCHANGED <<tables, started, logFailed>>

\* Mutant: a failed transaction insert or bid write fails the bid.
BidResponse_FailOnRecord(r, transactionError, bidError) ==
    IF transactionError # "" \/ bidError # "" THEN ErrorResp(500, "Failed to process bid")
    ELSE [status |-> 200, error |-> "", success |-> TRUE,
          newBalance |-> r.newBalance, bidAmount |-> r.body.bidAmount,
          songId |-> r.body.songId]

\* if (transactionError) console.error(..); if (bidError) console.error(..);
\* res.json({ success, newBalance, bidAmount, songId })
BidResponse(r, transactionError, bidError) ==
    [status |-> 200, error |-> "", success |-> TRUE,
     newBalance |-> r.newBalance, bidAmount |-> r.body.bidAmount,
     songId |-> r.body.songId]

\* const { error: transactionError }, as the later steps of the request
\* know it
TransactionError(r) == IF r.dropped THEN "08006" ELSE ""

\* lines 191-204: the insert reaches the store; the handler logs its error
\* and sends the song bid
BidLog(s) ==
    /\ slot[s].pc = "bid_log"
    /\ \E fault \in BOOLEAN :
         LET r == slot[s]
             row == [profile_id |-> r.user, amount |-> 0 - r.body.bidAmount,
                     transaction_type |-> "bid", ref |-> r.body.songId]
             res == InsertTransaction(token_transactions, Stamped(row, r.created_at),
                                      fault)
         IN  /\ token_transactions' = res.table
             /\ logFailed' = (logFailed \/ res.error # "")
             /\ Set(s, [r EXCEPT !.pc = "bid_record", !.dropped = fault])
    /\ UNCHANGED <<user_tokens, song_bids, songBidsKey, admin_actions, profile_role, started, now>>

\* lines 207-228: the upsert of the song bid reaches the store, the handler
\* responds.  The table has the keys it showed before; an upsert that meets
\* a row of its account and song shows them.
BidRecord(s) ==
    /\ slot[s].pc = "bid_record"
    /\ \E fault \in BOOLEAN, key \in SongBidsKeys :
         LET r == slot[s]
             bid == UpsertSongBid(song_bids, key, r.user, r.body.songId,
                                  r.body.bidAmount, fault)
             meets == ~fault /\ BidRowsOf(song_bids, r.user, r.body.songId) # {}
         IN  /\ songBidsKey \in {KeyNotShown, key}
             /\ songBidsKey' = IF meets THEN key ELSE songBidsKey
             /\ song_bids' = bid.table
             /\ Finish(s, [r EXCEPT !.dropped = r.dropped \/ bid.error # ""],
                       BidResponse(r, TransactionError(r), bid.error))
    /\ UNCHANGED <<user_tokens, token_transactions, admin_actions, profile_role,
                   started, logFailed, now>>

\* ------------------------------------ GET /transactions (lines 243-273)
ListQueries == [page : Pages, limit : Limits]

\* (Number(page) - 1) * Number(limit)
Offset(page, limit) == (page - 1) * limit

GetTransactions(s) ==
    /\ Free(s)
    /\ started < MaxRequests
    /\ \E req \in Requests(ListQueries, [page |-> 1, limit |-> 2], {"u2"}), fault \in BOOLEAN :
       \E newestFirst \in Orderings(TransactionsOf(token_transactions, Begin("transactions", req).user)) :
         LET auth == authenticateUser(req.token)
             r == Begin("transactions", req)
             offset == Offset(req.body.page, req.body.limit)
             res == SelectTransactions(newestFirst, offset,
                                       offset + req.body.limit - 1, fault)
         IN  IF ~auth.ok THEN ~fault /\ Finish(s, r, ErrorResp(401, auth.error))
             ELSE IF res.error # ""
             THEN /\ req.body = [page |-> 1, limit |-> 2]
                  /\ Finish(s, [r EXCEPT !.faulted = fault],
                            ErrorResp(500, "Failed to fetch transactions"))
             ELSE Finish(s, r,
                         [status |-> 200, error |-> "",
                          transactions |-> res.data,
                          page |-> req.body.page, limit |-> req.body.limit,
                          hasMore |-> (Len(res.data) = req.body.limit)])
    /\ started' = started + 1
    /\ UNCHANGED <<tables, logFailed, now>>

\* ------------------------------------ POST /admin/adjust (lines 276-347)
ValidAdjust == [userId |-> "u1", adjustment |-> 2, isNumber |-> TRUE,
                reason |-> "correction"]

AdjustBodies ==
    [userId : {"u1"}, adjustment : Adjustments, isNumber : {TRUE}, reason : {"correction"}]
    \cup {[ValidAdjust EXCEPT !.userId = Missing],
          [ValidAdjust EXCEPT !.isNumber = FALSE],
          [ValidAdjust EXCEPT !.reason = Missing]}

\* Mutant: every authenticated caller passes for an administrator.
IsAdmin_AnyAccount(user) == user \in Accounts

\* profiles.is_admin of the caller
IsAdmin(user) == user \in Admins

\* .from('profiles').select('is_admin').eq('id', user).single(), then
\* !adminProfile?.is_admin
LacksPrivilege(user, fault) == fault \/ ~IsAdmin(user)

\* !userId || typeof adjustment !== 'number' || !reason
MissingRequiredFields(body) ==
    body.userId = Missing \/ ~body.isNumber \/ body.reason = Missing

\* Math.max(0, currentBalance + adjustment)
ClampedBalance(currentBalance, adjustment) == Max(0, currentBalance + adjustment)

\* lines 278-303: check the privilege and the body, read the balance
AdjustRead(s) ==
    /\ Free(s)
    /\ started < MaxRequests
    /\ \E req \in Requests(AdjustBodies, ValidAdjust, Accounts),
          profileFault \in BOOLEAN, fault \in BOOLEAN :
         LET auth == authenticateUser(req.token)
             r == Begin("adjust", req)
             res == SelectBalance(user_tokens, req.body.userId, fault)
             currentBalance == BalanceOrZero(res)
         IN  IF ~auth.ok
             THEN ~profileFault /\ ~fault /\ Finish(s, r, ErrorResp(401, auth.error))
             ELSE IF LacksPrivilege(r.user, profileFault)
             THEN /\ ~fault
                  /\ profileFault => req.body = ValidAdjust
                  /\ Finish(s, [r EXCEPT !.faulted = profileFault],
                            ErrorResp(403, "Admin privileges required"))
             ELSE IF MissingRequiredFields(req.body)
             THEN ~fault /\ Finish(s, r, ErrorResp(400, "Missing required fields"))
             ELSE Set(s, [r EXCEPT !.pc = "adj_upsert",
                                   !.currentBalance = currentBalance,
                                   !.newBalance = ClampedBalance(currentBalance,
                                                                 req.body.adjustment),
                                   !.found = res.found,
                                   !.faulted = fault])
    /\ started' = started + 1
    /\ UNCHANGED <<tables, logFailed, now>>

\* lines 305-316: the upsert of the new balance reaches the store while the
\* handler waits.  A rejected upsert changes nothing and its answer, the 500
\* of lines 314-316, reads nothing, so it is given with this step.
AdjustUpsert(s) ==
    /\ slot[s].pc = "adj_upsert"
    /\ \E fault \in BOOLEAN :
         LET r == slot[s]
             res == UpsertBalance(user_tokens, r.body.userId, r.newBalance, fault)
         IN  /\ user_tokens' = res.table
             /\ IF WriteFailed(res.error)
                THEN Finish(s, [r EXCEPT !.faulted = r.faulted \/ fault],
                            ErrorResp(500, "Failed to adjust balance"))
                ELSE Set(s, [r EXCEPT !.pc = "adj_written"])
    /\ UNCHANGED <<token_transactions, song_bids, songBidsKey, admin_actions, profile_role,
                   started, logFailed, now>>

\* lines 318-326: the answer of the upsert reaches the handler, in a turn
\* of its own after the write; the handler builds the transaction row, reads
\* the clock for created_at and sends the insert
AdjustStamp(s) ==
    /\ slot[s].pc = "adj_written"
    /\ \E at \in Instants :
         /\ now' = at
         /\ Set(s, [slot[s] EXCEPT !.pc = "adj_log", !.created_at = at])
    /\ UNCHANGED <<tables, started, logFailed>>

\* The token_transactions row of an adjustment (lines 319-326).
AdjustTransaction(r) ==
    [profile_id |-> r.body.userId, amount |-> r.body.adjustment,
     transaction_type |-> "admin_adjustment", ref |-> r.user]

\* Mutant: the audit entry holds the balance before clamping.
AdminAction_Unclamped(r) ==
    [admin_id |-> r.user, action |-> "token_adjustment",
     target_user_id |-> r.body.userId,
     adjustment |-> r.body.adjustment, reason |-> r.body.reason,
     old_balance |-> r.currentBalance,
     new_balance |-> r.currentBalance + r.body.adjustment]

\* The admin_actions row of an adjustment (lines 329-335).
AdminAction(r) ==
    [admin_id |-> r.user, action |-> "token_adjustment",
     target_user_id |-> r.body.userId,
     adjustment |-> r.body.adjustment, reason |-> r.body.reason,
     old_balance |-> r.currentBalance, new_balance |-> r.newBalance]

\* lines 319-326: the insert into token_transactions reaches the store; the
\* handler does not look at its result and sends the audit entry
AdjustLog(s) ==
    /\ slot[s].pc = "adj_log"
    /\ \E fault \in BOOLEAN :
         LET r == slot[s]
             res == InsertTransaction(token_transactions,
                                      Stamped(AdjustTransaction(r), r.created_at), fault)
         IN  /\ token_transactions' = res.table
             /\ logFailed' = (logFailed \/ res.error # "")
             /\ Set(s, [r EXCEPT !.pc = "adj_record", !.dropped = fault])
    /\ UNCHANGED <<user_tokens, song_bids, songBidsKey, admin_actions, profile_role, started, now>>

\* lines 329-341: the insert into admin_actions reaches the store; the
\* handler does not look at its result and responds
AdjustRecord(s) ==
    /\ slot[s].pc = "adj_record"
    /\ \E fault \in BOOLEAN :
         LET r == slot[s]
         IN  /\ admin_actions' = InsertAdminAction(admin_actions, AdminAction(r), fault)
             /\ Finish(s, [r EXCEPT !.dropped = r.dropped \/ fault],
                       [status |-> 200, error |-> "", success |-> TRUE,
                        newBalance |-> r.newBalance,
                        adjustment |-> r.body.adjustment])
    /\ UNCHANGED <<user_tokens, token_transactions, song_bids, songBidsKey, profile_role,
                   started, logFailed, now>>

\* ------------------- PUT /admin/change-role (profile.ts, lines 197-231)
\* The router of profile.ts works on the same store; its middlewares
\* authenticateUser and requireAdmin (lines 35-70) answer as those of
\* tokens.ts do.
ValidChangeRole == [userId |-> "u1", newRole |-> "dj", oldRole |-> "attendee"]

ChangeRoleBodies ==
    {ValidChangeRole,
     [ValidChangeRole EXCEPT !.userId = Missing],
     [ValidChangeRole EXCEPT !.newRole = Missing]}

\* !userId || !newRole
MissingRoleFields(body) == body.userId = Missing \/ body.newRole = Missing

\* .from('profiles').update({ role, updated_at }).eq('id', userId): no error
\* when no row has that id
UpdateProfileRole(roles, userId, newRole, fault) ==
    IF fault THEN [error |-> "08006", table |-> roles]
    ELSE IF userId \in DOMAIN roles
    THEN [error |-> "", table |-> [roles EXCEPT ![userId] = newRole]]
    ELSE [error |-> "", table |-> roles]

\* The admin_actions row of a role change (lines 219-225); old_role is what
\* the body says.
RoleChangeAction(r) ==
    [admin_id |-> r.user, action |-> "role_change",
     target_user_id |-> r.body.userId,
     old_role |-> r.body.oldRole, new_role |-> r.body.newRole]

\* lines 197-203 and the middlewares: check the privilege and the body
ChangeRoleRead(s) ==
    /\ Free(s)
    /\ started < MaxRequests
    /\ \E req \in Requests(ChangeRoleBodies, ValidChangeRole, {"u2"}), profileFault \in BOOLEAN :
         LET auth == authenticateUser(req.token)
             r == Begin("changeRole", req)
         IN  IF ~auth.ok
             THEN ~profileFault /\ Finish(s, r, ErrorResp(401, auth.error))
             ELSE IF LacksPrivilege(r.user, profileFault)
             THEN /\ profileFault => req.body = ValidChangeRole
                  /\ Finish(s, [r EXCEPT !.faulted = profileFault],
                            ErrorResp(403, "Admin privileges required"))
             ELSE IF MissingRoleFields(req.body)
             THEN Finish(s, r, ErrorResp(400, "userId and newRole required"))
             ELSE Set(s, [r EXCEPT !.pc = "role_update"])
    /\ started' = started + 1
    /\ UNCHANGED <<tables, logFailed, now>>

\* lines 205-216: write the role
ChangeRoleUpdate(s) ==
    /\ slot[s].pc = "role_update"
    /\ \E fault \in BOOLEAN :
         LET r == slot[s]
             res == UpdateProfileRole(profile_role, r.body.userId, r.body.newRole, fault)
         IN  /\ profile_role' = res.table
             /\ IF WriteFailed(res.error)
                THEN Finish(s, [r EXCEPT !.faulted = TRUE],
                            ErrorResp(500, "Failed to update role"))
                ELSE Set(s, [r EXCEPT !.pc = "role_record"])
    /\ UNCHANGED <<user_tokens, token_transactions, song_bids, songBidsKey, admin_actions,
                   started, logFailed, now>>

\* lines 218-227: the insert into admin_actions reaches the store; the
\* handler does not look at its result and responds
ChangeRoleRecord(s) ==
    /\ slot[s].pc = "role_record"
    /\ \E fault \in BOOLEAN :
         LET r == slot[s]
         IN  /\ admin_actions' = InsertAdminAction(admin_actions, RoleChangeAction(r),
                                                   fault)
             /\ Finish(s, [r EXCEPT !.dropped = fault],
                       [status |-> 200, error |-> "", success |-> TRUE])
    /\ UNCHANGED <<user_tokens, token_transactions, song_bids, songBidsKey, profile_role,
                   started, logFailed, now>>

\* ------------------------------------------- the role router (role.ts)
\* POST /, PUT / and DELETE / of role.ts with the middlewares
\* authenticateUser (auth.ts) and, for POST /, validateRole, and the three
\* role tables of oauth-role-tables.sql.  Every
\* `await supabase...` is one step of the request; the middlewares and the
\* checks before the first lookup are part of the first step.  JSON null is
\* Null, [] and {} are the empty sequence, an object is a record.
UserRoles == {"attendee", "dj", "venue"}

\* const tables = ['attendee', 'dj', 'venue'], the order of the lookups
RoleTables == <<"attendee", "dj", "venue">>

RoleInputs == UserRoles \cup {"admin"}

Null == "null"

Now == "2026-01-01T00:00:00.000Z"

Later == "2026-01-02T00:00:00.000Z"

\* NOW() of the store when its trigger update_updated_at_column runs: the
\* instant of the handlers' stamps or a later one
TriggerInstants == {Now, Later}

NoFields == [k \in {} |-> Null]

\* { ...a, ...b }: the fields of both, b's value where both have the field
ObjectSpread(a, b) == b @@ a

\* auth.users as supabase.auth.getUser(token) answers it; the accounts carry
\* no user_metadata.
AuthUsers ==
    [u \in Accounts |-> IF u = "u1" THEN [id |-> "u1", email |-> "u1@djei.app"]
                                    ELSE [id |-> "u2", email |-> "u2@djei.app"]]

NoUser == [id |-> "", email |-> "", name |-> ""]

\* authenticateUser of auth.ts: req.user, or the 401 it answers.  The name is
\* the local part of the email, the accounts have no full_name or name.
authenticateUserMw(token) ==
    IF token = NoToken
    THEN [ok |-> FALSE, error |-> "Authorization header missing or invalid format",
          user |-> NoUser]
    ELSE IF token \notin Accounts
    THEN [ok |-> FALSE, error |-> "Invalid or expired token", user |-> NoUser]
    ELSE [ok |-> TRUE, error |-> "",
          user |-> [id |-> AuthUsers[token].id, email |-> AuthUsers[token].email,
                    name |-> token]]

\* The profileData objects requests carry with a role: dj fields in and out
\* of range for dj, another account's id and a field that is no column for
\* attendee, the required fields for venue
ProfileInputs(role) ==
    IF role = "dj" THEN {[years_experience |-> 5], [years_experience |-> 101]}
    ELSE IF role = "attendee"
    THEN {[id |-> "u2", email |-> "eve@djei.app"], [years_experience |-> 5]}
    ELSE {[venue_name |-> "Club", address |-> "1 Main St", city |-> "Austin"]}

\* req.body: a role, with or without profileData
RoleBodies ==
    [role : RoleInputs]
    \cup UNION {[role : {role}, profileData : ProfileInputs(role)] : role \in UserRoles}

\* req.body of PUT /: profileData with a column of attendee and dj that is
\* no column of venue, with another account's id, or no profileData
UpdateBodies ==
    {[profileData |-> [bio |-> "changed"]], [profileData |-> [id |-> "u2"]], NoFields}

\* profileData?.field is defined
HasField(body, field) ==
    "profileData" \in DOMAIN body /\ field \in DOMAIN body.profileData

\* ...profileData: nothing when the body has none
ProfileData(body) ==
    IF "profileData" \in DOMAIN body THEN body.profileData ELSE NoFields

\* validateRole: the paths of the body its chain rejects.  Of the fields the
\* requests carry the chain checks role, years_experience (for role dj only)
\* and the three venue strings (for role venue only, 1 to 255, 500 and 100
\* characters, which the inputs satisfy); it has no rule for id or email.
validateRole(body) ==
    (IF body.role \in UserRoles THEN {} ELSE {"role"})
    \cup (IF /\ body.role = "dj"
             /\ HasField(body, "years_experience")
             /\ body.profileData.years_experience \notin 0..100
          THEN {"profileData.years_experience"} ELSE {})

\* getDefaultProfileData(role)
getDefaultProfileData(role) ==
    IF role = "attendee"
    THEN [favorite_genres |-> <<>>, preferred_venues |-> <<>>, followed_djs |-> <<>>,
          notification_preferences |-> [email |-> TRUE, push |-> TRUE, sms |-> FALSE],
          privacy_settings |-> [profile_visibility |-> "public",
                                location_sharing |-> "friends"]]
    ELSE IF role = "dj"
    THEN [genres |-> <<>>, years_experience |-> 0, equipment_list |-> <<>>,
          availability_schedule |-> <<>>, performance_history |-> <<>>,
          ratings_average |-> 0, ratings_count |-> 0, is_verified |-> FALSE,
          verification_documents |-> <<>>]
    ELSE IF role = "venue"
    THEN [music_genres |-> <<>>, amenities |-> <<>>, equipment_available |-> <<>>,
          operating_hours |-> <<>>, booking_info |-> <<>>, social_media |-> <<>>,
          images |-> <<>>, is_verified |-> FALSE, ratings_average |-> 0,
          ratings_count |-> 0]
    ELSE NoFields

\* Mutant: the defaults are spread after profileData.
RoleData_DefaultsLast(user, body) ==
    LET profileData == ProfileData(body)
        own == [id |-> user.id, email |-> user.email,
                name |-> IF HasField(body, "name") THEN body.profileData.name
                         ELSE user.name,
                created_at |-> Now, updated_at |-> Now]
    IN  ObjectSpread(ObjectSpread(own, profileData), getDefaultProfileData(body.role))

\* lines 119-128: the row the handler sends.  req.user of the accounts has no
\* avatar_url, so without profileData.avatar_url that field is undefined and
\* is not sent; name is never empty, req.user.name is set by the middleware.
RoleData(user, body) ==
    LET profileData == ProfileData(body)
        own == [id |-> user.id, email |-> user.email,
                name |-> IF HasField(body, "name") THEN body.profileData.name
                         ELSE user.name,
                created_at |-> Now, updated_at |-> Now]
    IN  ObjectSpread(ObjectSpread(own, getDefaultProfileData(body.role)), profileData)

\* The columns of a role table and their DEFAULT; a column without DEFAULT
\* is null when the insert does not name it.
ColumnDefaults(table) ==
    IF table = "attendee"
    THEN [id |-> Null, email |-> Null, name |-> Null, username |-> Null,
          avatar_url |-> Null, bio |-> Null, favorite_genres |-> <<>>,
          location |-> Null, phone |-> Null, date_of_birth |-> Null,
          preferred_venues |-> <<>>, followed_djs |-> <<>>,
          notification_preferences |-> [email |-> TRUE, push |-> TRUE, sms |-> FALSE],
          privacy_settings |-> [profile_visibility |-> "public",
                                location_sharing |-> "friends"],
          created_at |-> Now, updated_at |-> Now]
    ELSE IF table = "dj"
    THEN [id |-> Null, email |-> Null, name |-> Null, stage_name |-> Null,
          avatar_url |-> Null, bio |-> Null, genres |-> <<>>, location |-> Null,
          phone |-> Null, years_experience |-> 0, hourly_rate |-> Null,
          equipment_list |-> Null, spotify_id |-> Null, soundcloud_url |-> Null,
          instagram_handle |-> Null, twitter_handle |-> Null, website_url |-> Null,
          availability_schedule |-> <<>>, performance_history |-> <<>>,
          ratings_average |-> 0, ratings_count |-> 0, is_verified |-> FALSE,
          verification_documents |-> <<>>, created_at |-> Now, updated_at |-> Now]
    ELSE [id |-> Null, email |-> Null, name |-> Null, venue_name |-> Null,
          avatar_url |-> Null, description |-> Null, address |-> Null, city |-> Null,
          state |-> Null, postal_code |-> Null, country |-> "US", latitude |-> Null,
          longitude |-> Null, phone |-> Null, website_url |-> Null, capacity |-> Null,
          venue_type |-> Null, music_genres |-> <<>>, amenities |-> <<>>,
          equipment_available |-> <<>>, operating_hours |-> <<>>,
          booking_info |-> <<>>, social_media |-> <<>>, images |-> <<>>,
          is_verified |-> FALSE, ratings_average |-> 0, ratings_count |-> 0,
          created_at |-> Now, updated_at |-> Now]

\* The NOT NULL columns besides the key
NotNullColumns(table) ==
    IF table = "venue" THEN {"email", "name", "venue_name", "address", "city"}
    ELSE {"email", "name"}

\* Mutant: the lookup never finds a row.
SelectProfile_NoRow(table, userId, fault) ==
    [error |-> IF fault THEN "fetch failed" ELSE "PGRST116", found |-> FALSE]

\* .from(table).select('id').eq('id', userId).single(): the row, or an error
\* when the call fails or does not match exactly one row.
SelectProfile(table, userId, fault) ==
    LET rows == {row \in profiles[table] : row.id = userId}
    IN  IF fault THEN [error |-> "fetch failed", found |-> FALSE]
        ELSE IF Cardinality(rows) # 1 THEN [error |-> "PGRST116", found |-> FALSE]
        ELSE [error |-> "", found |-> TRUE]

\* .from(table).insert([roleData]).select().single(): the stored row, or the
\* error of the store: a field that is no column (PGRST204), a null in a
\* NOT NULL column (23502), an id that is no auth.users id (23503), an id the
\* table already holds (23505, PRIMARY KEY).
InsertProfile(table, roleData, fault) ==
    LET columns == DOMAIN ColumnDefaults(table)
        row == [c \in columns |-> IF c \in DOMAIN roleData THEN roleData[c]
                                  ELSE ColumnDefaults(table)[c]]
    IN  IF fault THEN [error |-> "fetch failed", row |-> NoFields]
        ELSE IF DOMAIN roleData \ columns # {}
        THEN [error |-> "PGRST204", row |-> NoFields]
        ELSE IF \E c \in NotNullColumns(table) : row[c] = Null
        THEN [error |-> "23502", row |-> NoFields]
        ELSE IF row.id \notin Accounts
        THEN [error |-> "23503", row |-> NoFields]
        ELSE IF \E old \in profiles[table] : old.id = row.id
        THEN [error |-> "23505", row |-> NoFields]
        ELSE [error |-> "", row |-> row]

\* lines 193-196: updateData of PUT /
UpdateData(body) == ObjectSpread(ProfileData(body), [updated_at |-> Now])

\* .from(table).update(updateData).eq('id', userId).select().single(): the
\* row as updated, or the error of the store: a field that is no column
\* (PGRST204), no row with that id to return (PGRST116), a null in a NOT
\* NULL column (23502), an id that is no auth.users id (23503), an id
\* another row of the table holds (23505).  The BEFORE UPDATE trigger of
\* oauth-role-tables.sql sets updated_at to the store's NOW().
UpdateProfile(table, userId, updateData, at, fault) ==
    LET columns == DOMAIN ColumnDefaults(table)
        rows == {row \in profiles[table] : row.id = userId}
        old == CHOOSE row \in rows : TRUE
        row == [ObjectSpread(old, updateData) EXCEPT !.updated_at = at]
        none == [error |-> "", row |-> NoFields, table |-> profiles[table]]
    IN  IF fault THEN [none EXCEPT !.error = "fetch failed"]
        ELSE IF DOMAIN updateData \ columns # {} THEN [none EXCEPT !.error = "PGRST204"]
        ELSE IF rows = {} THEN [none EXCEPT !.error = "PGRST116"]
        ELSE IF \E c \in NotNullColumns(table) : row[c] = Null
        THEN [none EXCEPT !.error = "23502"]
        ELSE IF row.id \notin Accounts THEN [none EXCEPT !.error = "23503"]
        ELSE IF \E other \in profiles[table] \ rows : other.id = row.id
        THEN [none EXCEPT !.error = "23505"]
        ELSE [error |-> "", row |-> row, table |-> (profiles[table] \ rows) \cup {row}]

\* .from(table).delete().eq('id', userId): the rows with that id are gone;
\* no error when there is none.
DeleteProfile(table, userId, fault) ==
    IF fault THEN [error |-> "fetch failed", table |-> profiles[table]]
    ELSE [error |-> "", table |-> {row \in profiles[table] : row.id # userId}]

\* A request of the role router: its handler, its position, req.user,
\* req.body, the role getUserRole found and the error of its latest lookup.
RoleIdle == [op |-> "", pc |-> "idle", token |-> NoToken, user |-> NoUser,
             body |-> [role |-> ""], currentRole |-> "", error |-> ""]

RoleFree(s) ==
    roleSlot[s].pc = "idle" /\ \A t \in Slots : t < s => roleSlot[t].pc # "idle"

\* The handler goes on to its next store call.
RoleSet(s, r) == roleSlot' = [roleSlot EXCEPT ![s] = r] /\ last' = Idle

\* The handler responds: its slot is released, the caller and the response
\* are kept in last.
RoleFinish(s, r, resp) ==
    /\ roleSlot' = [roleSlot EXCEPT ![s] = RoleIdle]
    /\ last' = [Idle EXCEPT !.op = r.op, !.pc = "done", !.user = r.user.id,
                            !.resp = resp]

RoleConflict(existingRole) ==
    [status |-> 409, error |-> "User already has a role assigned",
     currentRole |-> existingRole]

\* lines 88-106 and the middlewares: authenticateUser awaits the auth
\* service, validateRole and the checks of the handler follow in the same
\* turn; the handler then calls getUserRole.
SetRoleBegin(s) ==
    /\ RoleFree(s)
    /\ started < MaxRequests
    /\ started' = started + 1
    /\ \E token \in Accounts \cup {NoToken, BadToken}, body \in RoleBodies :
         LET auth == authenticateUserMw(token)
             r == [RoleIdle EXCEPT !.op = "setRole", !.token = token,
                                   !.user = auth.user, !.body = body]
         IN  IF ~auth.ok
             THEN /\ body = [role |-> "dj"]
                  /\ RoleFinish(s, r, ErrorResp(401, auth.error))
             ELSE IF validateRole(body) # {}
             THEN RoleFinish(s, r, [status |-> 400, error |-> "Validation failed",
                                    details |-> validateRole(body)])
             ELSE IF r.user.id = "" \/ r.user.email = ""
             THEN RoleFinish(s, r, ErrorResp(401, "User not authenticated"))
             ELSE IF body.role \notin UserRoles
             THEN RoleFinish(s, r, ErrorResp(400, "Invalid role specified"))
             ELSE RoleSet(s, [r EXCEPT !.pc = RoleTables[1]])
    /\ UNCHANGED <<tables, slot, logFailed, profiles, spotifyVars>>

\* lines 167-186 and authenticateUser: PUT / has no validation chain; the
\* handler calls getUserRole.
UpdateRoleBegin(s) ==
    /\ RoleFree(s)
    /\ started < MaxRequests
    /\ started' = started + 1
    /\ \E token \in Accounts \cup {NoToken, BadToken}, body \in UpdateBodies :
         LET auth == authenticateUserMw(token)
             r == [RoleIdle EXCEPT !.op = "updateRole", !.token = token,
                                   !.user = auth.user, !.body = body]
         IN  IF ~auth.ok
             THEN /\ body = NoFields
                  /\ RoleFinish(s, r, ErrorResp(401, auth.error))
             ELSE IF r.user.id = ""
             THEN RoleFinish(s, r, ErrorResp(401, "User not authenticated"))
             ELSE RoleSet(s, [r EXCEPT !.pc = RoleTables[1]])
    /\ UNCHANGED <<tables, slot, logFailed, profiles, spotifyVars>>

\* lines 231-243 and authenticateUser: DELETE / reads no body; the handler
\* calls getUserRole.
DeleteRoleBegin(s) ==
    /\ RoleFree(s)
    /\ started < MaxRequests
    /\ started' = started + 1
    /\ \E token \in Accounts \cup {NoToken, BadToken} :
         LET auth == authenticateUserMw(token)
             r == [RoleIdle EXCEPT !.op = "deleteRole", !.token = token,
                                   !.user = auth.user, !.body = NoFields]
         IN  IF ~auth.ok
             THEN RoleFinish(s, r, ErrorResp(401, auth.error))
             ELSE IF r.user.id = ""
             THEN RoleFinish(s, r, ErrorResp(401, "User not authenticated"))
             ELSE RoleSet(s, [r EXCEPT !.pc = RoleTables[1]])
    /\ UNCHANGED <<tables, slot, logFailed, profiles, spotifyVars>>

\* What a handler does with the role getUserRole returned: POST / answers
\* 409 (lines 109-116), PUT / and DELETE / go on to their store call.
RoleFound(s, r, table) ==
    IF r.op = "setRole" THEN RoleFinish(s, r, RoleConflict(table))
    ELSE RoleSet(s, [r EXCEPT !.pc = IF r.op = "updateRole" THEN "update" ELSE "delete",
                              !.currentRole = table])

\* What a handler does when getUserRole returned null: POST / goes on to
\* its insert, PUT / and DELETE / answer 404 (lines 182-187, 245-250).
RoleNotFound(s, r) ==
    IF r.op = "setRole" THEN RoleSet(s, [r EXCEPT !.pc = "insert"])
    ELSE RoleFinish(s, r, ErrorResp(404, "User role not found"))

\* One turn of the loop of getUserRole (lines 283-293) and what the handler
\* does with the result: the table that holds the caller's id is the role,
\* else the next table is read, else there is no role.  A lookup the store
\* failed counts as no row (line 290).
SetRoleLookup(s) ==
    /\ roleSlot[s].pc \in UserRoles
    /\ \E fault \in BOOLEAN :
         LET table == roleSlot[s].pc
             res == SelectProfile(table, roleSlot[s].user.id, fault)
             r == [roleSlot[s] EXCEPT !.error = res.error]
         IN  IF res.found THEN RoleFound(s, r, table)
             ELSE IF table = "attendee" THEN RoleSet(s, [r EXCEPT !.pc = "dj"])
             ELSE IF table = "dj" THEN RoleSet(s, [r EXCEPT !.pc = "venue"])
             ELSE RoleNotFound(s, r)
    /\ UNCHANGED <<tables, slot, started, logFailed, profiles, spotifyVars>>

\* lines 198-217 of PUT /: the update and the response
UpdateRoleStore(s) ==
    /\ roleSlot[s].pc = "update"
    /\ \E fault \in BOOLEAN, at \in TriggerInstants :
         LET r == roleSlot[s]
             res == UpdateProfile(r.currentRole, r.user.id, UpdateData(r.body), at, fault)
         IN  /\ profiles' = [profiles EXCEPT ![r.currentRole] = res.table]
             /\ IF res.error # ""
                THEN RoleFinish(s, r, ErrorResp(400, res.error))
                ELSE RoleFinish(s, r, [status |-> 200, error |-> "",
                                       role |-> r.currentRole, profile |-> res.row])
    /\ UNCHANGED <<tables, slot, started, logFailed, spotifyVars>>

\* lines 252-269 of DELETE /: the delete and the response
DeleteRoleStore(s) ==
    /\ roleSlot[s].pc = "delete"
    /\ \E fault \in BOOLEAN :
         LET r == roleSlot[s]
             res == DeleteProfile(r.currentRole, r.user.id, fault)
         IN  /\ profiles' = [profiles EXCEPT ![r.currentRole] = res.table]
             /\ IF res.error # ""
                THEN RoleFinish(s, r, ErrorResp(400, res.error))
                ELSE RoleFinish(s, r, [status |-> 200, error |-> "",
                                       message |-> "Role deleted successfully"])
    /\ UNCHANGED <<tables, slot, started, logFailed, spotifyVars>>

\* lines 118-152: the insert and the response
SetRoleInsert(s) ==
    /\ roleSlot[s].pc = "insert"
    /\ \E fault \in BOOLEAN :
         LET r == roleSlot[s]
             role == r.body.role
             res == InsertProfile(role, RoleData(r.user, r.body), fault)
         IN  IF res.error # ""
             THEN /\ RoleFinish(s, r, ErrorResp(400, res.error))
                  /\ UNCHANGED profiles
             ELSE /\ profiles' = [profiles EXCEPT ![role] = @ \cup {res.row}]
                  /\ RoleFinish(s, r, [status |-> 201, error |-> "", role |-> role,
                                       profile |-> res.row])
    /\ UNCHANGED <<tables, slot, started, logFailed, spotifyVars>>

\* --------------------------------- the catalog credential (spotify.ts)
\* getSpotifyToken and its module variable spotifyToken, called by the
\* handlers of POST /token, GET /search, GET /track/:id and
\* GET /recommendations; every await is one step of the call.  The client
\* credentials are configured (lines 15-20).  The clock `now` counts ticks of
\* TickMs milliseconds; Date.now() is now * TickMs.
TickMs == 30000

\* "Subtract 1 minute for safety", line 41
SafetyMs == 60000

\* expires_in of the token endpoint's answers, in seconds
ExpiresIn == {60, 120}

DateNow == now * TickMs

\* let spotifyToken = null
NoSpotifyToken == [cached |-> FALSE, token |-> [serial |-> 0, validUntil |-> 0],
                   expires |-> 0]

\* Mutant: a cache entry is still served at its expiry instant.
CacheValid_AtExpiry == spotifyToken.cached /\ spotifyToken.expires >= DateNow

\* spotifyToken && spotifyToken.expires > Date.now(), line 11
CacheValid == spotifyToken.cached /\ spotifyToken.expires > DateNow

\* The answer the token endpoint gives to the n-th request it receives: a
\* new access_token and its expires_in.  validUntil is the instant until
\* which the endpoint honours the token, expires_in after the answer is read.
TokenAnswer(n, expires_in) ==
    [access_token |-> [serial |-> n, validUntil |-> DateNow + expires_in * 1000],
     expires_in |-> expires_in]

\* A call of getSpotifyToken: the handler that made it (op "token" for
\* POST /token, "search" for GET /search, "track" for GET /track/:id with the
\* id of the track, "recommendations" for GET /recommendations), its
\* position, the number of its request to the token endpoint, the expires_in
\* of the answer and the token with which the handler asks the catalog.
CallIdle == [pc |-> "idle", op |-> "token", id |-> "", request |-> 0, expires_in |-> 0,
             bearer |-> [serial |-> 0, validUntil |-> 0]]

CallFree(s) ==
    caller[s].pc = "idle" /\ \A t \in Slots : t < s => caller[t].pc # "idle"

\* res.json({ access_token }) or the 500 of the catch block, lines 51-56
TokenResponse(s, resp) ==
    /\ caller' = [caller EXCEPT ![s] = CallIdle]
    /\ last' = [Idle EXCEPT !.op = "getSpotifyToken", !.pc = "done", !.resp = resp]

TokenFailed == ErrorResp(500, "Failed to get Spotify token")

\* What the handler of GET /search answers, lines 65-120
SearchResponse(s, resp) ==
    /\ caller' = [caller EXCEPT ![s] = CallIdle]
    /\ last' = [Idle EXCEPT !.op = "search", !.pc = "done", !.resp = resp]

SearchFailed == ErrorResp(500, "Failed to search Spotify")

\* What the handler of GET /track/:id answers, lines 140-172
TrackResponse(s, resp) ==
    /\ caller' = [caller EXCEPT ![s] = CallIdle]
    /\ last' = [Idle EXCEPT !.op = "getTrack", !.pc = "done",
                            !.body = [id |-> caller[s].id], !.resp = resp]

TrackFailed == ErrorResp(500, "Failed to get track details")

\* What the handler of GET /recommendations answers, lines 181-234
RecommendationsResponse(s, resp) ==
    /\ caller' = [caller EXCEPT ![s] = CallIdle]
    /\ last' = [Idle EXCEPT !.op = "recommendations", !.pc = "done", !.resp = resp]

RecommendationsFailed == ErrorResp(500, "Failed to get recommendations")

\* getSpotifyToken returns `token` to the handler of the call c in slot s:
\* POST /token answers it (line 51); GET /search, GET /track/:id and
\* GET /recommendations send their request to the catalog with it (lines
\* 79-83, 134-138, 198-202) and wait.
Returned(s, c, token) ==
    IF c.op = "token"
    THEN TokenResponse(s, [status |-> 200, error |-> "", access_token |-> token])
    ELSE /\ caller' = [caller EXCEPT ![s] = [c EXCEPT !.pc = "catalog_fetching",
                                                       !.bearer = token]]
         /\ last' = Idle

\* getSpotifyToken throws: the catch block of the handler answers 500
\* (lines 52-56, 115-120, 168-172, 229-234).
Threw(s) ==
    IF caller[s].op = "search" THEN SearchResponse(s, SearchFailed)
    ELSE IF caller[s].op = "track" THEN TrackResponse(s, TrackFailed)
    ELSE IF caller[s].op = "recommendations"
    THEN RecommendationsResponse(s, RecommendationsFailed)
    ELSE TokenResponse(s, TokenFailed)

\* lines 11-30, entered by the call c from slot s: the cached token when the
\* cache is valid, else the request to the token endpoint is sent
CallGetSpotifyToken(s, c) ==
    IF CacheValid
    THEN /\ Returned(s, c, spotifyToken.token)
         /\ UNCHANGED refreshes
    ELSE /\ caller' = [caller EXCEPT ![s] = [c EXCEPT !.pc = "fetching",
                                                       !.request = refreshes + 1]]
         /\ refreshes' = refreshes + 1
         /\ last' = Idle

\* POST /token (lines 48-50) calls getSpotifyToken
GetSpotifyToken(s) ==
    /\ CallFree(s)
    /\ started < MaxRequests
    /\ started' = started + 1
    /\ CallGetSpotifyToken(s, CallIdle)
    /\ UNCHANGED <<tables, slot, logFailed, roleVars, spotifyToken, now>>

\* lines 23-36: the answer of the token endpoint arrives; the call throws
\* when it is not ok, or when fetch itself fails
TokenFetched(s) ==
    /\ caller[s].pc = "fetching"
    /\ \/ Threw(s)
       \/ \E expires_in \in ExpiresIn :
            /\ caller' = [caller EXCEPT ![s] = [@ EXCEPT !.pc = "parsing",
                                                         !.expires_in = expires_in]]
            /\ last' = Idle
    /\ UNCHANGED <<tables, slot, started, logFailed, roleVars, spotifyToken, now, refreshes>>

\* lines 36-44: the body is read, the token is cached and returned; when
\* response.json() rejects the call throws before the cache is written and
\* the handler's catch answers 500
TokenParsed(s) ==
    /\ caller[s].pc = "parsing"
    /\ \/ /\ Threw(s)
          /\ UNCHANGED spotifyToken
       \/ LET data == TokenAnswer(caller[s].request, caller[s].expires_in)
          IN  /\ spotifyToken' = [cached |-> TRUE, token |-> data.access_token,
                                  expires |-> DateNow + data.expires_in * 1000 - SafetyMs]
              /\ Returned(s, caller[s], data.access_token)
    /\ UNCHANGED <<tables, slot, started, logFailed, roleVars, now, refreshes>>

\* The tracks in an answer of the catalog, by their ids.
CatalogItems == {<<>>, <<"t1">>}

\* A track of the catalog in our format: its own fields and the bidding
\* fields with their defaults (lines 92-107, 149-164, 211-226).
OurFormat(id) ==
    [id |-> id, source |-> "spotify", tokens |-> 0, bidders |-> 0, trending |-> "neutral"]

\* lines 79-89 of GET /search: the answer of the catalog arrives.  The
\* catalog honours the token until its validUntil; an answer that is not ok
\* throws, as does a failure of fetch.
SearchFetched(s) ==
    /\ caller[s].op = "search" /\ caller[s].pc = "catalog_fetching"
    /\ \/ SearchResponse(s, SearchFailed)
       \/ /\ caller[s].bearer.validUntil > DateNow
          /\ caller' = [caller EXCEPT ![s] = [@ EXCEPT !.pc = "catalog_parsing"]]
          /\ last' = Idle
    /\ UNCHANGED <<tables, slot, started, logFailed, roleVars, spotifyToken, now, refreshes>>

\* lines 89-120 of GET /search: the body is read and its tracks are
\* answered in our format, with the total the catalog gives and the limit
\* and offset of the request, here the defaults; when response.json()
\* rejects or the body has no tracks the catch block answers 500
SearchParsed(s) ==
    /\ caller[s].op = "search" /\ caller[s].pc = "catalog_parsing"
    /\ \/ SearchResponse(s, SearchFailed)
       \/ \E items \in CatalogItems :
            \E total \in {Len(items), Len(items) + 1} :
               SearchResponse(s, [status |-> 200, error |-> "",
                                  tracks |-> [i \in 1..Len(items) |-> OurFormat(items[i])],
                                  total |-> total, limit |-> 10, offset |-> 0])
    /\ UNCHANGED <<tables, slot, started, logFailed, roleVars, spotifyToken, now, refreshes>>

\* lines 134-145 of GET /track/:id: the answer of the catalog arrives.  The
\* catalog honours the token until its validUntil; 404 is answered 'Track
\* not found', any other failure throws.
TrackFetched(s) ==
    /\ caller[s].op = "track" /\ caller[s].pc = "catalog_fetching"
    /\ \/ TrackResponse(s, TrackFailed)
       \/ /\ caller[s].bearer.validUntil > DateNow
          /\ TrackResponse(s, ErrorResp(404, "Track not found"))
       \/ /\ caller[s].bearer.validUntil > DateNow
          /\ caller' = [caller EXCEPT ![s] = [@ EXCEPT !.pc = "catalog_parsing"]]
          /\ last' = Idle
    /\ UNCHANGED <<tables, slot, started, logFailed, roleVars, spotifyToken, now, refreshes>>

\* lines 147-172 of GET /track/:id: the body is read and answered in our
\* format; when response.json() rejects or the body is not a track the
\* catch block answers 500
TrackParsed(s) ==
    /\ caller[s].op = "track" /\ caller[s].pc = "catalog_parsing"
    /\ \/ TrackResponse(s, TrackFailed)
       \/ TrackResponse(s, [status |-> 200, error |-> "", id |-> caller[s].id,
                            source |-> "spotify", tokens |-> 0, bidders |-> 0,
                            trending |-> "neutral"])
    /\ UNCHANGED <<tables, slot, started, logFailed, roleVars, spotifyToken, now, refreshes>>

\* lines 198-206 of GET /recommendations: the answer of the catalog
\* arrives; an answer that is not ok throws, as does a failure of fetch.
RecommendationsFetched(s) ==
    /\ caller[s].op = "recommendations" /\ caller[s].pc = "catalog_fetching"
    /\ \/ RecommendationsResponse(s, RecommendationsFailed)
       \/ /\ caller[s].bearer.validUntil > DateNow
          /\ caller' = [caller EXCEPT ![s] = [@ EXCEPT !.pc = "catalog_parsing"]]
          /\ last' = Idle
    /\ UNCHANGED <<tables, slot, started, logFailed, roleVars, spotifyToken, now, refreshes>>

\* lines 208-234 of GET /recommendations: the body is read and its tracks
\* are answered in our format; when response.json() rejects or the body has
\* no tracks the catch block answers 500
RecommendationsParsed(s) ==
    /\ caller[s].op = "recommendations" /\ caller[s].pc = "catalog_parsing"
    /\ \/ RecommendationsResponse(s, RecommendationsFailed)
       \/ \E items \in CatalogItems :
            RecommendationsResponse(s,
                [status |-> 200, error |-> "",
                 tracks |-> [i \in 1..Len(items) |-> OurFormat(items[i])]])
    /\ UNCHANGED <<tables, slot, started, logFailed, roleVars, spotifyToken, now, refreshes>>

\* Time passes.
Tick ==
    /\ now < MaxClock
    /\ now' = now + 1
    /\ last' = Idle
    /\ UNCHANGED <<tables, slot, started, logFailed, roleVars,
                   spotifyToken, caller, refreshes>>

\* ------------------------------------------------------------ the system
\* The ledger after the accounts in `funded` have each completed one valid
\* purchase on an empty store (PurchaseRead .. PurchaseLog), at
\* the instant the clock shows at the start.
RECURSIVE PurchaseRows(_)
PurchaseRows(funded) ==
    IF funded = {} THEN <<>>
    ELSE LET p == CHOOSE q \in funded : \A o \in funded : q = "u1" \/ o # "u1"
         IN  <<[profile_id |-> p, amount |-> ValidPurchase.amount,
                transaction_type |-> "purchase", ref |-> ValidPurchase.paymentIntentId,
                created_at |-> 0]>>
             \o PurchaseRows(funded \ {p})

\* The accounts that have bought tokens before the first request: u2, the
\* administrator, has a balance row and its purchase transaction, u1 has
\* neither.
Funded == {"u2"}

\* The state after construction, on a store in which the accounts in
\* `funded` hold tokens.
Start(funded) ==
    /\ user_tokens = [p \in Accounts |->
                         IF p \in funded
                         THEN [exists |-> TRUE, balance |-> ValidPurchase.amount]
                         ELSE NoRow]
    /\ token_transactions = PurchaseRows(funded)
    /\ song_bids = <<>>
    /\ songBidsKey = KeyNotShown
    /\ admin_actions = <<>>
    /\ profile_role = [p \in Accounts |-> "attendee"]
    /\ slot = [s \in Slots |-> Idle]
    /\ last = Idle
    /\ started = 0
    /\ logFailed = FALSE
    /\ profiles = [table \in UserRoles |-> {}]
    /\ roleSlot = [s \in Slots |-> RoleIdle]
    /\ spotifyToken = NoSpotifyToken
    /\ now = 0
    /\ caller = [s \in Slots |-> CallIdle]
    /\ refreshes = 0

Init == Start(Funded)

Next ==
    \E s \in Slots :
        \/ GetBalance(s)
        \/ PurchaseRead(s)
        \/ PurchaseUpsert(s)
        \/ PurchaseStamp(s)
        \/ PurchaseLog(s)
        \/ BidRead(s)
        \/ BidUpdate(s)
        \/ BidStamp(s)
        \/ BidLog(s)
        \/ BidRecord(s)
        \/ GetTransactions(s)
        \/ AdjustRead(s)
        \/ AdjustUpsert(s)
        \/ AdjustStamp(s)
        \/ AdjustLog(s)
        \/ AdjustRecord(s)
        \/ ChangeRoleRead(s)
        \/ ChangeRoleUpdate(s)
        \/ ChangeRoleRecord(s)

Spec == Init /\ [][Next]_vars

TypeOK ==
    /\ \A p \in Accounts : user_tokens[p].balance \in Int
    /\ started \in 0..MaxRequests

\* ------------------------------------------- the running server (server.ts)
\* A path is the sequence of its segments: /api/payments/tokens/balance is
\* <<"api", "payments", "tokens", "balance">>.
Methods == {"GET", "POST"}

\* The paths at which the routes of tokens.ts are documented and tested.
TokenEndpoints ==
    {<<"api", "payments", "tokens", e>> : e \in {"balance", "purchase", "bid", "transactions"}}

Paths ==
    TokenEndpoints \cup {<<"health">>, <<"api">>, <<"api", "music", "spotify", "token">>,
                         <<"api", "music", "spotify", "search">>,
                         <<"api", "music", "spotify", "track", "t1">>,
                         <<"api", "music", "spotify", "recommendations">>,
                         <<"api", "payments", "create-intent">>, <<"favicon.ico">>}

\* req.query of a request, by the parameters the handlers of spotify.ts
\* read; limit and offset keep their defaults.
NoQuery == [q |-> Missing, seed_tracks |-> Missing, seed_artists |-> Missing,
            seed_genres |-> Missing]

Queries ==
    {NoQuery, [NoQuery EXCEPT !.q = ""], [NoQuery EXCEPT !.q = "a"],
     [NoQuery EXCEPT !.seed_tracks = "t1"], [NoQuery EXCEPT !.seed_artists = "a1"],
     [NoQuery EXCEPT !.seed_genres = "rock"]}

\* req.body of a request to create-intent after express.json() (line 32):
\* undefined when the request carries no body, else the object sent, with
\* or without the field amount.
NoBody == [none |-> TRUE]

IntentBodies ==
    {NoBody} \cup [amount : {0, 500}, userId : {Missing, "", "u1"}]
             \cup [userId : {Missing, "u1"}]

\* !v of a string parameter or field: it is undefined or the empty string
Falsy(v) == v \in {Missing, ""}

IsPrefix(m, path) == Len(m) <= Len(path) /\ SubSeq(path, 1, Len(m)) = m

\* The routes of the two routers the app mounts, as method and path below
\* the prefix; ":id" stands for one segment of any value.
RouterRoutes(router) ==
    IF router = "spotifyRoutes"
    THEN {[method |-> "POST", path |-> <<"token">>],
          [method |-> "GET", path |-> <<"search">>],
          [method |-> "GET", path |-> <<"track", ":id">>],
          [method |-> "GET", path |-> <<"recommendations">>]}
    ELSE {[method |-> "POST", path |-> <<>>]}

\* The route's path matches the rest of the request's path.
MatchesPath(pattern, rest) ==
    /\ Len(pattern) = Len(rest)
    /\ \A i \in 1..Len(pattern) : pattern[i] = ":id" \/ pattern[i] = rest[i]

\* app.use(prefix, router), lines 41-42
Mounted ==
    {[prefix |-> <<"api", "music", "spotify">>, router |-> "spotifyRoutes"],
     [prefix |-> <<"api", "payments", "create-intent">>, router |-> "createIntentRoutes"]}

\* The mounted routers that take the request: the prefix matches the path
\* and a route of the router matches the method and the rest of the path.
\* A router none of whose routes matches calls next().
Taking(method, path) ==
    {m \in Mounted :
        /\ IsPrefix(m.prefix, path)
        /\ \E route \in RouterRoutes(m.router) :
              /\ route.method = method
              /\ MatchesPath(route.path, SubSeq(path, Len(m.prefix) + 1, Len(path)))}

\* The layer of the app that answers the request, in the order of lines
\* 36-47; "finalhandler" when none does.  The two prefixes are disjoint, so
\* at most one router takes a request.
Route(method, path) ==
    IF method = "GET" /\ path = <<"health">> THEN "health"
    ELSE IF Taking(method, path) # {}
    THEN (CHOOSE m \in Taking(method, path) : TRUE).router
    ELSE IF method = "GET" /\ path = <<"api">> THEN "api"
    ELSE "finalhandler"

\* The route of the router that takes the request
MatchedRoute(method, path) ==
    LET m == CHOOSE t \in Taking(method, path) : TRUE
    IN  CHOOSE route \in RouterRoutes(m.router) :
            /\ route.method = method
            /\ MatchesPath(route.path, SubSeq(path, Len(m.prefix) + 1, Len(path)))

\* What server.ts itself answers; a mounted router answers for itself.
ServerResponse(handler) ==
    IF handler \in {"health", "api"} THEN [status |-> 200, error |-> ""]
    ELSE IF handler = "finalhandler" THEN [status |-> 404, error |-> ""]
    ELSE NoResp

\* The handler of the catalog router that `route` names takes the request
\* (spotify.ts): POST /token calls getSpotifyToken (lines 48-50); GET /search
\* answers 400 without q (lines 63-67) and else calls it (line 69);
\* GET /track/:id calls it with req.params.id set (line 132; line 128 does
\* not fire); GET /recommendations answers 400 without a seed (lines 179-185)
\* and else calls it (line 187).  The handler goes on in TokenFetched,
\* TokenParsed and the steps of its own.
SpotifyRoute(s, route, path, query) ==
    IF route.path = <<"token">>
    THEN CallGetSpotifyToken(s, CallIdle)
    ELSE IF route.path = <<"search">>
    THEN IF Falsy(query.q)
         THEN /\ SearchResponse(s, ErrorResp(400, "Query parameter \"q\" is required"))
              /\ UNCHANGED refreshes
         ELSE CallGetSpotifyToken(s, [CallIdle EXCEPT !.op = "search"])
    ELSE IF route.path = <<"track", ":id">>
    THEN CallGetSpotifyToken(s, [CallIdle EXCEPT !.op = "track", !.id = path[Len(path)]])
    ELSE IF /\ Falsy(query.seed_tracks) /\ Falsy(query.seed_artists)
            /\ Falsy(query.seed_genres)
    THEN /\ RecommendationsResponse(s, ErrorResp(400,
                "At least one seed parameter (seed_tracks, seed_artists, or seed_genres) is required"))
         /\ UNCHANGED refreshes
    ELSE CallGetSpotifyToken(s, [CallIdle EXCEPT !.op = "recommendations"])

\* POST / of create-intent.ts, lines 8-44: destructuring an undefined
\* req.body throws and the catch block answers 500; when amount is undefined
\* or 0, or userId is undefined or empty, 400; else the mock answer.
CreateIntentResponse(body) ==
    IF body = NoBody THEN ErrorResp(500, "Failed to create payment intent")
    ELSE IF "amount" \notin DOMAIN body \/ body.amount = 0 \/ Falsy(body.userId)
    THEN ErrorResp(400, "Missing required fields: amount and userId")
    ELSE [status |-> 200, error |-> "", success |-> TRUE,
          clientSecret |-> "pi_mock_client_secret_for_testing"]

\* A request to the listening server (lines 58-60), up to the first await
\* of the handler it reaches: the layers of lines 36-47 in their order.  No
\* layer reads the Authorization header.
ServerRequest(s) ==
    /\ CallFree(s)
    /\ started < MaxRequests
    /\ \E method \in Methods, path \in Paths, token \in Accounts \cup {NoToken, BadToken} :
         LET handler == Route(method, path)
         IN  IF handler = "spotifyRoutes"
             THEN \E query \in Queries :
                    SpotifyRoute(s, MatchedRoute(method, path), path, query)
             ELSE /\ IF handler = "createIntentRoutes"
                     THEN \E body \in IntentBodies :
                            last' = [Idle EXCEPT !.op = "createIntent", !.pc = "done",
                                                 !.token = token, !.body = body,
                                                 !.resp = CreateIntentResponse(body)]
                     ELSE last' = [Idle EXCEPT !.op = "server", !.pc = "done",
                                               !.token = token,
                                               !.body = [method |-> method, path |-> path,
                                                         handler |-> handler],
                                               !.resp = ServerResponse(handler)]
                  /\ UNCHANGED <<caller, refreshes>>
    /\ started' = started + 1
    /\ UNCHANGED <<tables, slot, logFailed, roleVars, spotifyToken, now>>

\* The server: its requests, the calls of the catalog router under way and
\* the clock.
ServerNext ==
    \/ \E s \in Slots :
          \/ ServerRequest(s)
          \/ TokenFetched(s)
          \/ TokenParsed(s)
          \/ SearchFetched(s)
          \/ SearchParsed(s)
          \/ TrackFetched(s)
          \/ TrackParsed(s)
          \/ RecommendationsFetched(s)
          \/ RecommendationsParsed(s)
    \/ Tick

ServerSpec == Init /\ [][ServerNext]_vars

\* ------------------------------------------- the role router on its own
RoleNext ==
    \E s \in Slots :
        \/ SetRoleBegin(s)
        \/ UpdateRoleBegin(s)
        \/ DeleteRoleBegin(s)
        \/ SetRoleLookup(s)
        \/ SetRoleInsert(s)
        \/ UpdateRoleStore(s)
        \/ DeleteRoleStore(s)

\* The role router starts on a store without ledger rows.
RoleInit == Start({})

RoleSpec == RoleInit /\ [][RoleNext]_vars


\* ------------------------------------------------------------ properties
\* No request is between two of its store calls.
Quiescent == \A s \in Slots : slot[s].pc = "idle"

\* The stored balance of account p, 0 when it has no row.
StoredBalance(p) == IF user_tokens[p].exists THEN user_tokens[p].balance ELSE 0

\* Bids that have passed the sufficiency check and are not yet answered.
PassedCheck(s) ==
    slot[s].op = "bid" /\ slot[s].pc \in {"bid_update", "bid_written", "bid_log", "bid_record"}

\* C1: in every reachable state the stored balance of every account is >= 0,
\* also when bids against one account interleave their balance read and
\* write and their amounts together exceed the balance.
C1_BalanceNeverNegative ==
    \A p \in Accounts : user_tokens[p].exists => user_tokens[p].balance >= 0

\* C1 witness: a bid has completed while another bid of the same account,
\* which read the same balance, is still in flight, and the two amounts
\* together exceed that balance.
C1_Witness ==
    /\ last.op = "bid" /\ last.resp.status = 200
    /\ \E s \in Slots :
         /\ PassedCheck(s)
         /\ slot[s].user = last.user
         /\ slot[s].currentBalance = last.currentBalance
         /\ slot[s].body.bidAmount + last.body.bidAmount > last.currentBalance

\* C2: once no request is in flight and no transaction-log write has failed,
\* the stored balance of every account equals the sum of the amounts of the
\* transactions recorded for it.
C2_BalanceEqualsLedgerSum ==
    (Quiescent /\ ~logFailed) =>
        \A p \in Accounts : StoredBalance(p) = LedgerSum(token_transactions, p)

\* C3: two concurrent bids of one account never both pass the sufficiency
\* check against the same balance unless that balance covers both, so that
\* of k concurrent bids of d against B only floor(B/d) succeed.
C3_ConcurrentDebitsSerialised ==
    \A s, t \in Slots :
        ( /\ s # t
          /\ PassedCheck(s) /\ PassedCheck(t)
          /\ slot[s].user = slot[t].user
          /\ slot[s].currentBalance = slot[t].currentBalance )
        => slot[s].body.bidAmount + slot[t].body.bidAmount <= slot[s].currentBalance


\* The request records of a state: the in-flight ones and the last answered.
Records == {last} \cup {slot[s] : s \in Slots}

\* r is the request that arrived in this step: it was answered at once (no
\* slot changed) or it holds the slot it took.
Arrived(r) ==
    /\ started' # started
    /\ IF slot' = slot THEN r = last'
       ELSE \E s \in Slots : slot[s].pc = "idle" /\ slot'[s].pc # "idle" /\ r = slot'[s]

\* r is an authenticated bid with a valid body whose balance read did not fail.
CheckedBid(r) ==
    r.op = "bid" /\ r.user # "" /\ bidTokenSchema(r.body) /\ ~r.faulted

\* C4: a bid whose amount is greater than the caller's current balance (0
\* for a caller without a row) is answered 400 'Insufficient tokens' with the
\* current balance and the required amount, and its step changes no table.
C4_InsufficientBidMutatesNothing ==
    [][ \A r \in Records' :
          ( /\ Arrived(r)
            /\ CheckedBid(r)
            /\ r.body.bidAmount > user_tokens[r.user].balance )
          => /\ r.pc = "done"
             /\ r.resp = [status |-> 400, error |-> "Insufficient tokens",
                          currentBalance |-> user_tokens[r.user].balance,
                          required |-> r.body.bidAmount]
             /\ UNCHANGED tables ]_vars

\* C5: a bid equal to the caller's current balance passes the check, writes
\* balance 0 and is answered with success and newBalance 0; a bid of the
\* current balance plus 1 (1 for a caller without a row) is answered
\* 'Insufficient tokens' and leaves the balance unchanged.
C5_ExactBidBoundary ==
    [][ /\ \A r \in Records' :
             ( /\ Arrived(r) /\ CheckedBid(r)
               /\ r.body.bidAmount = user_tokens[r.user].balance )
             => r.pc = "bid_update" /\ r.newBalance = 0
        /\ \A r \in Records' :
             ( /\ Arrived(r) /\ CheckedBid(r)
               /\ r.body.bidAmount = user_tokens[r.user].balance + 1 )
             => /\ r.pc = "done" /\ r.resp.status = 400
                /\ r.resp.error = "Insufficient tokens"
                /\ UNCHANGED user_tokens
        /\ \A s \in Slots :
             ( /\ slot[s].pc = "bid_update" /\ slot'[s] # slot[s]
               /\ slot[s].body.bidAmount = slot[s].currentBalance )
             => \/ /\ slot'[s].pc = "bid_written"
                   /\ user_tokens'[slot[s].user].balance = 0
                \/ /\ last'.faulted /\ last'.resp.status = 500
                   /\ UNCHANGED user_tokens
        /\ \A s \in Slots :
             ( /\ slot[s].pc = "bid_record" /\ slot'[s] # slot[s]
               /\ slot[s].body.bidAmount = slot[s].currentBalance )
             => /\ last'.resp.status = 200 /\ last'.resp.success
                /\ last'.resp.newBalance = 0 ]_vars

\* C6: a valid purchase of a by an account with balance c (0 without a row)
\* is answered with success, newBalance = c + a and amountAdded = a.
C6_PurchaseCredits ==
    ( /\ last.op = "purchase" /\ last.pc = "done"
      /\ last.user # "" /\ tokenPurchaseSchema(last.body)
      /\ ~last.faulted )
    => /\ last.resp.status = 200
       /\ last.resp.newBalance = last.currentBalance + last.body.amount
       /\ last.resp.amountAdded = last.body.amount

\* C7: a valid bid of b against a balance c >= b writes balance c - b, then
\* appends the transaction (bid, -b), then writes the song bid (account,
\* songId) with amount b and status active, and is answered with success,
\* newBalance = c - b, bidAmount = b and the songId.  Between the balance
\* write and the insert the handler reads the clock, which changes no table.
\* The insert and the song-bid write may be failed by the store, which
\* changes nothing.
C7_BidDebits ==
    [][ /\ \A r \in Records' :
             ( /\ Arrived(r) /\ CheckedBid(r)
               /\ user_tokens[r.user].exists
               /\ r.body.bidAmount <= user_tokens[r.user].balance )
             => /\ r.pc = "bid_update"
                /\ r.currentBalance = user_tokens[r.user].balance
        /\ \A s \in Slots :
             (slot[s].pc = "bid_update" /\ slot'[s] # slot[s])
             => \/ /\ slot'[s].pc = "bid_written"
                   /\ user_tokens'[slot[s].user].balance =
                         slot[s].currentBalance - slot[s].body.bidAmount
                \/ last'.faulted /\ last'.resp.status = 500
        /\ \A s \in Slots :
             (slot[s].pc = "bid_written" /\ slot'[s] # slot[s])
             => /\ slot'[s].pc = "bid_log"
                /\ slot'[s].body = slot[s].body
                /\ UNCHANGED tables
        /\ \A s \in Slots :
             (slot[s].pc = "bid_log" /\ slot'[s] # slot[s])
             => /\ slot'[s].pc = "bid_record"
                /\ UNCHANGED <<user_tokens, song_bids>>
                /\ \/ slot'[s].dropped /\ UNCHANGED token_transactions
                   \/ token_transactions' =
                         Append(token_transactions,
                                [profile_id |-> slot[s].user,
                                 amount |-> 0 - slot[s].body.bidAmount,
                                 transaction_type |-> "bid",
                                 ref |-> slot[s].body.songId,
                                 created_at |-> slot[s].created_at])
        /\ \A s \in Slots :
             (slot[s].pc = "bid_record" /\ slot'[s] # slot[s])
             => /\ last'.op = "bid" /\ last'.pc = "done"
                /\ last'.resp = [status |-> 200, error |-> "", success |-> TRUE,
                                 newBalance |-> slot[s].currentBalance
                                                  - slot[s].body.bidAmount,
                                 bidAmount |-> slot[s].body.bidAmount,
                                 songId |-> slot[s].body.songId]
                /\ UNCHANGED <<user_tokens, token_transactions>>
                /\ \/ last'.dropped /\ UNCHANGED song_bids
                   \/ \E i \in 1..Len(song_bids') :
                         song_bids'[i] =
                            [user_id |-> slot[s].user,
                             song_id |-> slot[s].body.songId,
                             bid_amount |-> slot[s].body.bidAmount,
                             status |-> "active"] ]_vars

\* C7 witness: a bid of 1 against a balance of 2 has succeeded with
\* newBalance 1, its transaction and its song bid are recorded.
C7_Witness ==
    /\ last.op = "bid" /\ last.resp.status = 200 /\ ~last.dropped
    /\ last.currentBalance > last.body.bidAmount
    /\ last.resp.newBalance = last.currentBalance - last.body.bidAmount
    /\ \E i \in 1..Len(song_bids) :
         /\ song_bids[i].user_id = last.user
         /\ song_bids[i].song_id = last.body.songId
         /\ song_bids[i].bid_amount = last.body.bidAmount
    /\ \E i \in 1..Len(token_transactions) :
         /\ token_transactions[i].transaction_type = "bid"
         /\ token_transactions[i].profile_id = last.user
         /\ token_transactions[i].amount = 0 - last.body.bidAmount

\* C8: the balance query of an authenticated account answers the stored
\* balance, 0 without error when the account has no row, and changes no
\* table.
C8_BalanceQueryIsPure ==
    [][ \A r \in Records' :
          (Arrived(r) /\ r.op = "balance")
          => /\ r.pc = "done"
             /\ UNCHANGED tables
             /\ (r.user # "" /\ ~r.faulted)
                => r.resp = [status |-> 200, error |-> "",
                             balance |-> StoredBalance(r.user)] ]_vars

\* C8 witness: the balance query of an account without a row was answered 0
\* and the account still has no row.
C8_Witness ==
    /\ last.op = "balance" /\ last.resp.status = 200
    /\ last.resp.balance = 0
    /\ ~last.found /\ ~user_tokens[last.user].exists

\* C9: an authenticated bid of a positive amount greater than the account's
\* balance (0 without a row) is answered 400 'Insufficient tokens'.
C9_InsufficientBidRejected ==
    ( /\ last.op = "bid" /\ last.pc = "done"
      /\ last.user # "" /\ ~last.faulted
      /\ last.body.songId # Missing
      /\ last.body.bidAmount > 0
      /\ last.body.bidAmount > last.currentBalance )
    => last.resp.status = 400 /\ last.resp.error = "Insufficient tokens"

\* C10: an admin adjustment of s on a balance c is answered with success and
\* the new balance max(0, c + s).
C10_AdjustClamps ==
    ( /\ last.op = "adjust" /\ last.pc = "done"
      /\ last.user # "" /\ IsAdmin(last.user)
      /\ ~MissingRequiredFields(last.body)
      /\ ~last.faulted )
    => /\ last.resp.status = 200
       /\ last.resp.newBalance = Max(0, last.currentBalance + last.body.adjustment)

\* C11: the admin_adjustment transaction an adjustment appends records the
\* amount actually applied after clamping, the new balance minus the old
\* one, not the requested amount.
C11_AdjustLogsAppliedAmount ==
    [][ \A s \in Slots :
          ( /\ slot[s].pc = "adj_log" /\ slot'[s] # slot[s]
            /\ token_transactions' # token_transactions )
          => LET row == token_transactions'[Len(token_transactions')]
             IN  /\ row.transaction_type = "admin_adjustment"
                 /\ row.profile_id = slot[s].body.userId
                 /\ row.amount = slot[s].newBalance - slot[s].currentBalance ]_vars

\* C12: a successful admin adjustment records exactly one audit entry with
\* the acting admin, the target account, the reason, and as old and new
\* balance the value the adjustment read and the value it wrote.  The entry
\* is written in the last step of the adjustment, after its transaction;
\* the store may fail that insert, which changes nothing.
C12_AdjustAudited ==
    [][ /\ \A r \in Records' :
             (Arrived(r) /\ r.op = "adjust" /\ r.pc = "adj_upsert" /\ ~r.faulted)
             => r.currentBalance = StoredBalance(r.body.userId)
        /\ \A s \in Slots :
             (slot[s].pc = "adj_upsert" /\ slot'[s].pc = "adj_written")
             => /\ user_tokens'[slot[s].body.userId].exists
                /\ user_tokens'[slot[s].body.userId].balance = slot[s].newBalance
                /\ slot'[s].newBalance = slot[s].newBalance
                /\ slot'[s].currentBalance = slot[s].currentBalance
                /\ UNCHANGED admin_actions
        /\ \A s \in Slots :
             (slot[s].pc = "adj_written" /\ slot'[s] # slot[s])
             => /\ slot'[s].pc = "adj_log"
                /\ slot'[s].newBalance = slot[s].newBalance
                /\ slot'[s].currentBalance = slot[s].currentBalance
                /\ UNCHANGED admin_actions
        /\ \A s \in Slots :
             (slot[s].pc = "adj_log" /\ slot'[s] # slot[s])
             => /\ slot'[s].pc = "adj_record"
                /\ slot'[s].newBalance = slot[s].newBalance
                /\ slot'[s].currentBalance = slot[s].currentBalance
                /\ UNCHANGED admin_actions
        /\ \A s \in Slots :
             (slot[s].pc = "adj_record" /\ slot'[s] # slot[s])
             => /\ last'.op = "adjust" /\ last'.pc = "done"
                /\ last'.resp.status = 200 /\ last'.resp.success
                /\ \/ last'.dropped /\ admin_actions' = admin_actions
                   \/ admin_actions' =
                         Append(admin_actions,
                                [admin_id |-> slot[s].user,
                                 action |-> "token_adjustment",
                                 target_user_id |-> slot[s].body.userId,
                                 adjustment |-> slot[s].body.adjustment,
                                 reason |-> slot[s].body.reason,
                                 old_balance |-> slot[s].currentBalance,
                                 new_balance |-> slot[s].newBalance])
        /\ \A s \in Slots :
             (slot[s].op = "adjust" /\ slot[s].pc # "adj_record")
             => \/ UNCHANGED admin_actions
                \/ \E t \in Slots : t # s /\ slot[t].pc \in {"adj_record", "role_record"}
      ]_vars

\* C12 witness: an adjustment of -1 by the admin has succeeded; its audit
\* entry names the admin and the target and holds old balance 0 and the
\* clamped new balance 0, which is the stored balance.
C12_Witness ==
    /\ last.op = "adjust" /\ last.resp.status = 200 /\ ~last.dropped
    /\ last.body.adjustment < 0
    /\ admin_actions # <<>>
    /\ LET e == admin_actions[Len(admin_actions)]
       IN  /\ e.admin_id = last.user /\ e.target_user_id = last.body.userId
           /\ e.reason = last.body.reason
           /\ e.old_balance = 0
           /\ e.new_balance = user_tokens[last.body.userId].balance

\* C13: an admin-adjust request of an authenticated caller without elevated
\* privilege is answered 403 at once, whatever its body, and its step
\* changes no balance, appends no transaction and records no audit entry.
C13_NonAdminRejected ==
    [][ \A r \in Records' :
          (Arrived(r) /\ r.op = "adjust" /\ r.user # "" /\ r.user \notin Admins)
          => /\ r.pc = "done"
             /\ r.resp = ErrorResp(403, "Admin privileges required")
             /\ UNCHANGED tables ]_vars

\* C13 witness: account u1, not an admin, sent a complete adjustment of its
\* own balance and was answered 403; no audit entry exists.
C13_Witness ==
    /\ last.op = "adjust" /\ last.resp.status = 403
    /\ last.user = "u1" /\ ~last.faulted
    /\ last.body = ValidAdjust
    /\ admin_actions = <<>>

\* The ledger records a purchase of account p with the paymentIntentId.
Credited(p, paymentIntentId) ==
    \E i \in 1..Len(token_transactions) :
        /\ token_transactions[i].transaction_type = "purchase"
        /\ token_transactions[i].profile_id = p
        /\ token_transactions[i].ref = paymentIntentId

\* C15: a purchase call that repeats a paymentIntentId already credited to
\* its account credits nothing: no step of the call changes a stored
\* balance.  A purchase raises the balance of an account only when the
\* account has no balance row, that is, when no purchase has credited it
\* before; so two calls with the same paymentIntentId and amount a raise
\* the balance by a, not 2a.
C15_RepeatedPurchaseNotCredited ==
    [][ \A s \in Slots :
          ( slot[s].op = "purchase" /\ slot'[s] # slot[s] )
          => /\ Credited(slot[s].user, slot[s].body.paymentIntentId)
                => UNCHANGED user_tokens
             /\ user_tokens' # user_tokens
                => /\ ~user_tokens[slot[s].user].exists
                   /\ ~Credited(slot[s].user, slot[s].body.paymentIntentId)
                   /\ user_tokens' =
                        [user_tokens EXCEPT ![slot[s].user] =
                            [exists |-> TRUE, balance |-> slot[s].body.amount]] ]_vars

\* C15 witness: u1 has sent the same purchase twice; the first call was
\* credited and recorded, the second found the row and was refused, and the
\* balance is the amount of one purchase.
C15_Witness ==
    /\ started = 2
    /\ last.op = "purchase" /\ last.pc = "done" /\ last.user = "u1"
    /\ last.found /\ ~last.faulted
    /\ last.currentBalance = last.body.amount
    /\ Credited("u1", last.body.paymentIntentId)
    /\ last.resp = ErrorResp(500, "Failed to update balance")
    /\ user_tokens["u1"] = [exists |-> TRUE, balance |-> last.body.amount]

\* C16: once the balance write of a purchase or a bid has succeeded, the
\* steps that record the transaction and the song bid leave the balance as
\* written and the request is answered success with the new balance, also
\* when the transaction insert or the song-bid write fails.
C16_LogFailureNotFatal ==
    [][ \A s \in Slots :
          /\ (slot[s].pc \in {"pur_log", "bid_record"} /\ slot'[s] # slot[s])
             => /\ UNCHANGED user_tokens
                /\ last'.op = slot[s].op /\ last'.pc = "done"
                /\ last'.resp.status = 200 /\ last'.resp.success
                /\ last'.resp.newBalance = slot[s].newBalance
          /\ ( /\ slot[s].pc \in {"pur_written", "bid_written", "bid_log"}
               /\ slot'[s] # slot[s] )
             => /\ UNCHANGED user_tokens
                /\ slot'[s].pc \in {"pur_log", "bid_log", "bid_record"}
                /\ slot'[s].pc # slot[s].pc
                /\ slot'[s].newBalance = slot[s].newBalance ]_vars

\* C16 witness: a bid whose transaction insert and whose song-bid write both
\* failed was answered with success, and the stored balance is the new
\* balance of the response.
C16_Witness ==
    /\ last.op = "bid" /\ last.dropped /\ logFailed
    /\ last.resp.status = 200 /\ last.resp.success
    /\ user_tokens[last.user].balance = last.resp.newBalance
    /\ last.resp.newBalance = last.currentBalance - last.body.bidAmount
    /\ song_bids = <<>>
    /\ \A i \in 1..Len(token_transactions) :
         token_transactions[i].transaction_type # "bid"

\* C17: the running server answers a request to a token endpoint that
\* carries no bearer token, or one the identity verifier rejects, with
\* status 401, and touches no table for it.
C17_ServerRejectsUnauthenticated ==
    ( /\ last.op = "server" /\ last.pc = "done"
      /\ last.body.path \in TokenEndpoints
      /\ last.token \in {NoToken, BadToken} )
    => last.resp.status = 401

\* C18: a purchase or bid of an authenticated caller whose body violates the
\* schema (purchase amount outside 1..10000, packageType not one of 50, 100,
\* 250, 500, paymentIntentId or songId missing, bidAmount outside 1..1000) is
\* answered 400 at once, without a store call, and changes no table.
C18_InvalidBodyRejected ==
    [][ \A r \in Records' :
          ( /\ Arrived(r) /\ r.user # ""
            /\ \/ /\ r.op = "purchase"
                  /\ \/ r.body.amount < 1 \/ r.body.amount > 10000
                     \/ r.body.packageType \notin {"50", "100", "250", "500"}
                     \/ r.body.paymentIntentId = Missing
               \/ /\ r.op = "bid"
                  /\ \/ r.body.bidAmount < 1 \/ r.body.bidAmount > 1000
                     \/ r.body.songId = Missing )
          => /\ r.pc = "done"
             /\ r.resp = ErrorResp(400, "Validation failed")
             /\ ~r.found /\ ~r.faulted
             /\ UNCHANGED tables ]_vars

\* C18 witness: a purchase of 10001 tokens by an account with balance 2 was
\* answered 400 and the balance is still 2.
C18_Witness ==
    /\ last.op = "purchase" /\ last.user # ""
    /\ last.body.amount = 10001
    /\ last.resp = ErrorResp(400, "Validation failed")
    /\ user_tokens[last.user] = [exists |-> TRUE, balance |-> 2]

\* C19: the upsert of a purchase or an admin adjustment updates the existing
\* balance row of the account: a valid request that found a row and met no
\* store failure is answered with success, it does not fail on the unique
\* account key.
C19_UpsertUpdatesExistingRow ==
    ( /\ last.op \in {"purchase", "adjust"} /\ last.pc = "done"
      /\ last.found /\ ~last.faulted )
    => last.resp.status = 200

\* C20: the transaction log is append-only: every step of every operation
\* leaves the transactions recorded so far in place and unchanged, and at
\* most adds one at the end.
C20_LogAppendOnly ==
    [][ /\ Len(token_transactions') \in
             {Len(token_transactions), Len(token_transactions) + 1}
        /\ SubSeq(token_transactions', 1, Len(token_transactions))
             = token_transactions ]_vars

\* C20 witness: after a purchase and a bid of one account, its transaction
\* listing answers both transactions, the bid first, and the log still
\* starts with the purchase.
C20_Witness ==
    /\ last.op = "transactions" /\ last.resp.status = 200
    /\ Len(last.resp.transactions) = 2
    /\ last.resp.transactions[1].transaction_type = "bid"
    /\ last.resp.transactions[2].transaction_type = "purchase"
    /\ Len(token_transactions) >= 2
    /\ token_transactions[1].transaction_type = "purchase"

\* C22: the hasMore flag of a transaction listing is true exactly when the
\* caller has a transaction beyond the returned page, so it is false when
\* the page ends at the caller's last transaction.
C22_HasMoreExact ==
    ( /\ last.op = "transactions" /\ last.pc = "done"
      /\ last.resp.status = 200 )
    => last.resp.hasMore =
          (Len(TransactionsOf(token_transactions, last.user))
              > last.body.page * last.body.limit)

\* The song_bids rows of account p, in table order.
BidsOf(bids, p) == SelectSeq(bids, LAMBDA b : b.user_id = p)

\* C29: every step of a purchase or a bid of account A leaves the balance
\* row, the transactions and the song bids of every other account as they
\* were, whatever the body of the request.
C29_OnlyOwnRecordsChange ==
    [][ \A s \in Slots :
          ( /\ slot'[s] # slot[s]
            /\ \/ slot[s].op \in {"purchase", "bid"}
               \/ slot[s].pc = "idle" /\ slot'[s].op \in {"purchase", "bid"} )
          => \A p \in Accounts :
               p # (IF slot[s].pc = "idle" THEN slot'[s].user ELSE slot[s].user)
               => /\ user_tokens'[p] = user_tokens[p]
                  /\ TransactionsOf(token_transactions', p)
                        = TransactionsOf(token_transactions, p)
                  /\ BidsOf(song_bids', p) = BidsOf(song_bids, p) ]_vars

\* C29 witness: u1 has completed a bid that changed its balance and recorded
\* its song bid while u2 holds a balance of 2 and its purchase transaction.
C29_Witness ==
    /\ last.op = "bid" /\ last.user = "u1" /\ last.resp.status = 200
    /\ ~last.dropped
    /\ user_tokens["u1"].balance = last.resp.newBalance
    /\ BidsOf(song_bids, "u1") # <<>>
    /\ user_tokens["u2"] = [exists |-> TRUE, balance |-> 2]
    /\ Len(TransactionsOf(token_transactions, "u2")) = 1
    /\ BidsOf(song_bids, "u2") = <<>>

\* C30: a purchase, a bid or an admin adjustment goes on past its balance
\* write only when the store holds the balance it wrote; when the store
\* rejected the write the handler answers 500 at once, the stored balances
\* are what they were, and no transaction, song bid or audit entry is
\* written.
C30_FailedWriteAborts ==
    [][ \A s \in Slots :
          ( /\ slot[s].pc \in {"pur_upsert", "bid_update", "adj_upsert"}
            /\ slot'[s] # slot[s] )
          => LET target == IF slot[s].op = "adjust" THEN slot[s].body.userId
                           ELSE slot[s].user
             IN  \/ /\ slot'[s].pc \in {"pur_written", "bid_written", "adj_written"}
                    /\ user_tokens'[target] =
                          [exists |-> TRUE, balance |-> slot[s].newBalance]
                 \/ /\ slot'[s].pc = "idle"
                    /\ last'.op = slot[s].op /\ last'.pc = "done"
                    /\ last'.resp.status = 500
                    /\ UNCHANGED tables ]_vars

\* C30 witness: the balance update of a bid of 1 against a balance of 2
\* failed in the store; the bid was answered 500, the balance is still 2
\* and neither a bid transaction nor a song bid exists.
C30_Witness ==
    /\ last.op = "bid" /\ last.resp = ErrorResp(500, "Failed to process bid")
    /\ last.currentBalance = 2 /\ last.body.bidAmount = 1
    /\ user_tokens[last.user].balance = 2
    /\ song_bids = <<>>
    /\ \A i \in 1..Len(token_transactions) :
         token_transactions[i].transaction_type # "bid"

\* The rows ordered by created_at, newest first, rows of one created_at in
\* the order of their insertion.
NewestFirstStable(rows) ==
    LET g == CHOOSE f \in Permutations(1..Len(rows)) :
                 \A a, b \in 1..Len(rows) :
                     a < b => \/ rows[f[a]].created_at > rows[f[b]].created_at
                              \/ /\ rows[f[a]].created_at = rows[f[b]].created_at
                                 /\ f[a] < f[b]
    IN  [i \in 1..Len(rows) |-> rows[g[i]]]

\* C21: the listing for page p and limit L changes no table and answers the
\* caller's own transactions at offsets (p-1)*L .. p*L-1 of their order by
\* created_at, newest first, ties in insertion order, at most L of them,
\* with page and limit echoed.
C21_ListingIsThePage ==
    [][ \A r \in Records' :
          (Arrived(r) /\ r.op = "transactions" /\ r.resp.status = 200)
          => LET own == NewestFirstStable(TransactionsOf(token_transactions, r.user))
                 from == (r.body.page - 1) * r.body.limit
                 upto == IF from + r.body.limit < Len(own)
                         THEN from + r.body.limit ELSE Len(own)
             IN  /\ UNCHANGED tables
                 /\ r.resp.transactions = SubSeq(own, from + 1, upto)
                 /\ Len(r.resp.transactions) <= r.body.limit
                 /\ r.resp.page = r.body.page /\ r.resp.limit = r.body.limit ]_vars

\* ------------------------------------------- the catalog router on its own
SpotifyNext ==
    \/ \E s \in Slots :
          \/ GetSpotifyToken(s)
          \/ TokenFetched(s)
          \/ TokenParsed(s)
    \/ Tick

SpotifyInit == Start({})

SpotifySpec == SpotifyInit /\ [][SpotifyNext]_vars

\* ------------------------------------------------ properties of role.ts
\* The caller of the request in slot s has a row in the role table `table`.
HasRole(table, userId) == \E row \in profiles[table] : row.id = userId

\* C23: a role assignment for an account that already has a role fails with
\* 409, reports that role as currentRole and inserts nothing.  Stated for
\* the lookup of getUserRole that reaches the table holding the caller's
\* row: the request is answered 409 with that table as currentRole and no
\* role table changes, unless the store failed that lookup.
C23_ExistingRoleConflicts ==
    [][ \A s \in Slots :
          ( /\ roleSlot[s].op = "setRole"
            /\ roleSlot[s].pc \in UserRoles
            /\ roleSlot'[s] # roleSlot[s]
            /\ HasRole(roleSlot[s].pc, roleSlot[s].user.id) )
          => \/ /\ roleSlot'[s].pc = "idle"
                /\ last'.op = "setRole" /\ last'.pc = "done"
                /\ last'.user = roleSlot[s].user.id
                /\ last'.resp = [status |-> 409,
                                 error |-> "User already has a role assigned",
                                 currentRole |-> roleSlot[s].pc]
                /\ UNCHANGED profiles
             \/ /\ roleSlot'[s].pc # "idle"
                /\ roleSlot'[s].error = "fetch failed"
                /\ UNCHANGED profiles ]_vars

\* C23 witness: a role assignment was answered 409 with the table that holds
\* the caller's row as currentRole.
C23_Witness ==
    /\ last.op = "setRole" /\ last.pc = "done"
    /\ last.resp.status = 409
    /\ HasRole(last.resp.currentRole, last.user)

\* The role tables that hold a row of the account
RolesOf(userId) == {table \in UserRoles : HasRole(table, userId)}

\* C24: in every reachable state each account has a row in at most one of
\* the role tables attendee, dj and venue, also when two role assignments
\* for one account interleave their lookups and their inserts.
C24_AtMostOneRole ==
    \A userId \in Accounts : Cardinality(RolesOf(userId)) <= 1

\* The request in slot s is at its insert and this step answers it.
Inserting(s) == roleSlot[s].pc = "insert" /\ roleSlot'[s] # roleSlot[s]

\* The fields of profileData that are role-specific fields of dj
DjFieldsOnly(body) == DOMAIN ProfileData(body) \subseteq DOMAIN getDefaultProfileData("dj")

\* C25: assigning role dj to an account with no role succeeds with 201 and
\* stores a profile carrying the dj defaults (years_experience 0,
\* ratings_count 0, empty genres, is_verified false, and the others); a dj
\* field supplied in profileData replaces its default and leaves the other
\* defaults in place.  The insert may still be failed by the store, which
\* is answered 400 and stores nothing.
C25_DjDefaults ==
    [][ \A s \in Slots :
          ( /\ Inserting(s)
            /\ roleSlot[s].body.role = "dj"
            /\ DjFieldsOnly(roleSlot[s].body)
            /\ RolesOf(roleSlot[s].user.id) = {} )
          => LET supplied == ProfileData(roleSlot[s].body)
                 defaults == getDefaultProfileData("dj")
                 row == last'.resp.profile
             IN  \/ /\ last'.resp.status = 201
                    /\ last'.resp.role = "dj"
                    /\ last'.user = roleSlot[s].user.id
                    /\ row.id = roleSlot[s].user.id
                    /\ profiles' = [profiles EXCEPT !["dj"] = @ \cup {row}]
                    /\ \A field \in DOMAIN defaults :
                          row[field] = IF field \in DOMAIN supplied
                                       THEN supplied[field] ELSE defaults[field]
                    /\ row.years_experience =
                          (IF "years_experience" \in DOMAIN supplied
                           THEN supplied.years_experience ELSE 0)
                    /\ row.ratings_count = 0
                    /\ row.genres = <<>>
                    /\ row.is_verified = FALSE
                 \/ /\ last'.resp = ErrorResp(400, "fetch failed")
                    /\ UNCHANGED profiles ]_vars

\* C25 witness: a dj assignment with years_experience supplied was answered
\* 201 and its stored profile has the supplied value and the other defaults.
C25_Witness ==
    /\ last.op = "setRole" /\ last.pc = "done"
    /\ last.resp.status = 201
    /\ last.resp.role = "dj"
    /\ last.resp.profile.years_experience = 5
    /\ last.resp.profile.ratings_count = 0
    /\ last.resp.profile \in profiles["dj"]

\* C28: the row a successful role assignment inserts has the id and the
\* email of the authenticated caller, whatever profileData holds; no row
\* appears or changes under another account's id.
C28_RowIsTheCallers ==
    [][ \A s \in Slots :
          Inserting(s)
          => /\ \A table \in UserRoles :
                  /\ profiles[table] \subseteq profiles'[table]
                  /\ \A row \in profiles'[table] \ profiles[table] :
                        /\ row.id = roleSlot[s].user.id
                        /\ row.email = roleSlot[s].user.email
             /\ last'.resp.status = 201
                  => /\ last'.resp.profile.id = roleSlot[s].user.id
                     /\ last'.resp.profile.email = roleSlot[s].user.email ]_vars

\* --------------------------------------------- properties of spotify.ts
\* The calls of getSpotifyToken that wait for the token endpoint
Refreshing == {s \in Slots : caller[s].pc \in {"fetching", "parsing"}}

\* C26: when several calls of getSpotifyToken find the cached credential
\* absent or expired, only one request to the token endpoint is under way
\* (single-flight); the other calls wait for its answer.
C26_SingleFlight == Cardinality(Refreshing) <= 1

\* A call of getSpotifyToken starts with this step.
Called == started' = started + 1

\* The call that starts with this step is answered at once, from the cache.
ServedFromCache ==
    /\ Called
    /\ last'.op = "getSpotifyToken" /\ last'.pc = "done"
    /\ caller' = caller

\* C27: while the cached credential is unexpired a call returns the cached
\* token and sends nothing to the token endpoint; a token is served from
\* the cache only before the cache entry's expiry, which is 60 seconds
\* before the expiry the token endpoint announced; a failed refresh leaves
\* the cache unchanged.
C27_CacheServedUntilExpiry ==
    [][ /\ ( Called /\ spotifyToken.cached /\ spotifyToken.expires > now * TickMs )
           => /\ ServedFromCache
              /\ last'.resp = [status |-> 200, error |-> "",
                               access_token |-> spotifyToken.token]
              /\ UNCHANGED <<refreshes, spotifyToken>>
        /\ ServedFromCache
           => /\ spotifyToken.cached
              /\ last'.resp.access_token = spotifyToken.token
              /\ now * TickMs < spotifyToken.token.validUntil - 60000
              /\ now * TickMs < spotifyToken.token.validUntil
        /\ \A s \in Slots :
             ( /\ caller[s].pc \in {"fetching", "parsing"}
               /\ caller'[s].pc = "idle"
               /\ last'.resp.status = 500 )
             => UNCHANGED spotifyToken ]_vars

\* C27 witness: of two calls the first refreshed the credential and the
\* second was served the cached token without a request to the endpoint.
C27_Witness ==
    /\ started = 2 /\ refreshes = 1
    /\ \A s \in Slots : caller[s].pc = "idle"
    /\ last.op = "getSpotifyToken" /\ last.pc = "done"
    /\ last.resp.status = 200
    /\ spotifyToken.cached
    /\ last.resp.access_token = spotifyToken.token
====
